---- MODULE Spec2Model ----
(***************************************************************************)
(* A model of the state-distribution and mutation-safety layer of the      *)
(* trading backend: the idempotency service (app/core/idempotency.py), the *)
(* per-IP WebSocket rate limiter (app/dependencies/rate_limiter.py), the   *)
(* raw price broadcaster (app/services/raw_price_broadcaster.py) with its  *)
(* public endpoint (app/api/v1/endpoints/public_market_data_ws.py), and    *)
(* the LZ4 codec and balance/margin refresh of app/core/cache.py.          *)
(*                                                                         *)
(* Every coroutine is cut at its await points: one action is the code that *)
(* runs between two suspensions.  Each subsystem has its own               *)
(* specification (SpecIdem, SpecRate, SpecWs, SpecCodec, SpecFresh) over   *)
(* the shared variable list; a specification leaves the variables of the   *)
(* other subsystems at their initial values.                               *)
(***************************************************************************)
EXTENDS Integers, Sequences, FiniteSets, TLC

None == "None"

(***************************************************************************)
(* Bounds of the model.                                                    *)
(***************************************************************************)
NumCalls == 2       \* concurrent handle_backend_idempotency calls
MaxTime == 6        \* the clock (seconds) stops here
NumClients == 6     \* connections one IP opens, admission control alone
NumConn == 3        \* connections the market-data endpoint serves
NumFeedConn == 2    \* connections served while the deliveries are recorded
MaxTicks == 3       \* ticks published while the deliveries are recorded
MaxText == 3        \* characters of a string or of the digits of a Decimal in a cached value
NumAttempts == 12   \* admission attempts of the IP, one after the other
MaxKeyTime == 2     \* seconds that pass while requests that differ are compared (records stay live)
SmallSizes == 3     \* encoded texts of 2 .. 2 + SmallSizes bytes
Near == 3           \* encoded texts within Near bytes of the compression threshold

(***************************************************************************)
(* Program constants.                                                      *)
(***************************************************************************)
ttl_seconds == 5    \* idempotency.py:266, ttl_seconds=5
LZ4_COMPRESSION_THRESHOLD == 512    \* cache.py:1514
max_connections == 5    \* rate_limiter.py:77, max_connections: int = 5

VARIABLES
  \* ---- idempotency service ----
  now,          \* datetime.utcnow(), in whole seconds
  table,        \* committed rows of IdempotencyKeys
  ipc,          \* per call: position in handle_backend_idempotency
  ireq,         \* per call: its arguments (user_id, user_type, endpoint, request_data)
  iexp,         \* per call: expires_at computed by create_idempotency_record
  outcome,      \* per call: what the call returned or raised
  ihist,        \* per call: observations kept for the properties (history)
  legacy,       \* how the legacy handle_idempotency call ended ("none": not made)
  lcall,        \* the legacy call in detail: token, request, row found, result
  \* ---- codec and user-data cache entry ----
  cpc,          \* "input", "stored" (after set_*), "read" (after get_*)
  ctext,        \* the encoded text (json.dumps output) handed to compress_lz4
  cwire,        \* the bytes stored under the Redis key
  cout,         \* the text decompress_lz4 gave back
  \* ---- balance/margin refresh ----
  fpc,          \* position in refresh_balance_margin_cache_with_fallback
  fcache,       \* the cached balance/margin entry of the user (or None)
  fdb,          \* the user's row in the relational store (or None)
  fuser,        \* db_user as loaded by the call (or None)
  fmargin,      \* total_user_margin as computed and clamped by the call
  fsets,        \* number of set_user_balance_margin_cache calls made
  fret,         \* what the call returned
  \* public market-data endpoint and WebSocketRateLimiter
  hpc,          \* per connection: where its endpoint handler stands
  rl_count,     \* the integer under ws_rate_limit:<ip> (0 when the key is absent)
  releases,     \* per connection: release_connection calls made for it
  \* ---- RawPriceBroadcaster ----
  alive,        \* per connection: the client is still there
  active,       \* active_connections
  sub_task,     \* _subscriber_task: a task number, 0 for None
  hwait,        \* per connection: the task its disconnect call awaits (0: none)
  tpc,          \* per _subscriber task: where it stands
  tcancel,      \* per task: a CancelledError is waiting at its current await
  twait,        \* per task: the task its disconnect call awaits (0: none)
  bc,           \* per task: the broadcast call it is in
  stopped,      \* a disconnect returned that left active_connections empty
  late,         \* a task took a tick from the channel while stopped
  starved,      \* last finished broadcast with a failed send: subscribers left out
  unremoved,          \* last finished broadcast with a failed send: failed ones still in the set
  \* ---- the market-data feed as the subscribers see it ----
  pub,          \* ticks published on the market-data channel so far
  tpos,         \* per task: the number of the last tick it took from its subscription
  since,        \* per connection: the ticks published when connect added it to the set
  inbox,         \* per connection: the messages it received (0: snapshot, n: update of tick n)
  \* ---- one call of a function of the program: its input and what it returned ----
  kpc,          \* where the call is
  kin,          \* the arguments of the call
  kout,         \* what the call returned
  \* ---- admission attempts of one IP, one after the other ----
  cm_count,     \* the counter ConnectionManager keeps for the IP (key ws_conn:raw:<ip>)
  attempt,      \* the admission attempt under way or just finished
  made,         \* admission attempts started so far
  admitted,     \* per route: attempts that ended with the socket accepted
  rejected,     \* per route: attempts that ended without
  clean,        \* no call of the counter store has raised so far
  cm_closed,    \* ConnectionManager.disconnect calls made for accepted sockets
  \* ---- signup OTP records (app/crud/otp.py) ----
  signup_otps,  \* the rows of the SignupOTP table
  otp_now,      \* utcnow(), in minutes
  next_id,      \* the id the next inserted row gets
  spent,        \* ids of the rows verified or deleted so far
  otp_ret      \* the last get_valid_signup_otp call: arguments, row returned

idemVars == <<now, table, ipc, ireq, iexp, outcome, ihist, legacy, lcall>>

codecVars == <<cpc, ctext, cwire, cout>>

freshVars == <<fpc, fcache, fdb, fuser, fmargin, fsets, fret>>

rateVars == <<hpc, rl_count, releases>>

wsVars == <<alive, active, sub_task, hwait, tpc, tcancel, twait, bc, stopped,
            late, starved, unremoved>>

feedVars == <<pub, tpos, since, inbox>>

calcVars == <<kpc, kin, kout>>

gateVars == <<cm_count, attempt, made, admitted, rejected, clean, cm_closed>>

otpVars == <<signup_otps, otp_now, next_id, spent, otp_ret>>

vars == <<idemVars, codecVars, freshVars, rateVars, wsVars, feedVars, calcVars, gateVars, otpVars>>

\* What the steps of one component leave alone: the other components' state.
notIdem == <<codecVars, freshVars, rateVars, wsVars, feedVars, calcVars, gateVars, otpVars>>
notCodec == <<idemVars, freshVars, rateVars, wsVars, feedVars, calcVars, gateVars, otpVars>>
notFresh == <<idemVars, codecVars, rateVars, wsVars, feedVars, calcVars, gateVars, otpVars>>
notRate == <<idemVars, codecVars, freshVars, wsVars, feedVars, calcVars, gateVars, otpVars>>
notWs == <<idemVars, codecVars, freshVars, calcVars, gateVars, otpVars>>
notCalc == <<idemVars, codecVars, freshVars, rateVars, wsVars, feedVars, gateVars, otpVars>>
notGate == <<idemVars, codecVars, freshVars, wsVars, feedVars, calcVars, otpVars>>
notOtp == <<idemVars, codecVars, freshVars, rateVars, wsVars, feedVars, calcVars, gateVars>>

(***************************************************************************)
(*                         IDEMPOTENCY SERVICE                             *)
(***************************************************************************)
Calls == 1..NumCalls

\* request_data as the caller emits it: a sequence of <<field, value>> pairs.
PayloadA  == << <<"symbol", "EURUSD">>, <<"order_quantity", "1.0">> >>
PayloadAr == << <<"order_quantity", "1.0">>, <<"symbol", "EURUSD">> >>

\* The first call's request; the later calls repeat it, permute its fields
\* or come from the demo user with the same id.
FirstRequest ==
  [user_id |-> 1, user_type |-> "live", endpoint |-> "place_order", request_data |-> PayloadA]

\* The requests a call may carry.
Requests ==
  { [user_id |-> 1, user_type |-> "live", endpoint |-> "place_order", request_data |-> PayloadA],
    [user_id |-> 1, user_type |-> "live", endpoint |-> "place_order", request_data |-> PayloadAr],
    [user_id |-> 1, user_type |-> "demo", endpoint |-> "place_order", request_data |-> PayloadA] }

NoRequest == [user_id |-> 0, user_type |-> None, endpoint |-> None, request_data |-> << >>]

\* A Python dict built from a sequence of items: a later item overrides an
\* earlier one with the same key.
RECURSIVE DictOf(_)
DictOf(items) ==
  IF items = << >> THEN << >>
  ELSE LET n == Len(items)
           init == DictOf(SubSeq(items, 1, n - 1))
           k == items[n][1]
           kept == SelectSeq(init, LAMBDA it : it[1] # k)
       IN  Append(kept, items[n])

\* {"user_id": user_id, "endpoint": endpoint, **request_data}
NormalizedData(request_data, user_id, endpoint) ==
  DictOf(<< <<"user_id", user_id>>, <<"endpoint", endpoint>> >> \o request_data)

\* The field names in sort order (sort_keys=True compares the key strings).
FieldOrder == <<"endpoint", "order_quantity", "symbol", "user_id", "user_type">>

RECURSIVE SortByField(_, _)
SortByField(d, i) ==
  IF i > Len(FieldOrder) THEN << >>
  ELSE SelectSeq(d, LAMBDA it : it[1] = FieldOrder[i]) \o SortByField(d, i + 1)

\* json.dumps(normalized_data, sort_keys=True, default=str): the items in key order.
JsonDumpsSorted(d) == SortByField(d, 1)

\* hashlib.sha256(...).hexdigest()[:16]: a digest of the text, taken to be
\* collision-free (equal digests only for equal texts).
Sha256Prefix(text) == <<"sha256", text>>

\* The key as it would be without sort_keys: the items in emission order.
generate_backend_key_unsorted(request_data, user_id, endpoint) ==
  <<"backend", endpoint, user_id,
    Sha256Prefix(NormalizedData(request_data, user_id, endpoint))>>

generate_backend_key(request_data, user_id, endpoint) ==
  <<"backend", endpoint, user_id,
    Sha256Prefix(JsonDumpsSorted(NormalizedData(request_data, user_id, endpoint)))>>

\* The key derived from the endpoint alone.
KeyOf_by_endpoint(r) == <<"backend", r.endpoint>>

KeyOf(r) == generate_backend_key(r.request_data, r.user_id, r.endpoint)

\* cleanup_expired_keys with the DELETE left out.
cleanup_expired_keys_noop(tbl, current_time) == tbl

\* cleanup_expired_keys: DELETE ... WHERE expires_at < current_time; commit.
cleanup_expired_keys(tbl, current_time) ==
  {row \in tbl : ~(row.expires_at < current_time)}

\* The SELECT of check_duplicate_request.
SelectExisting(tbl, idempotency_key, user_id, user_type, endpoint, t) ==
  {row \in tbl :
     /\ row.idempotency_key = idempotency_key
     /\ row.user_id = user_id
     /\ row.user_type = user_type
     /\ row.endpoint_name = endpoint
     /\ row.expires_at > t}

\* The table declared without the uniqueness constraint.
UniqueViolation_absent(tbl, idempotency_key) == FALSE

\* The IdempotencyKeys table rejects a second row with the same
\* idempotency_key (the uniqueness constraint on the key column).
UniqueViolation(tbl, idempotency_key) ==
  \E row \in tbl : row.idempotency_key = idempotency_key

\* History of a call: the calls in flight with it (conc), the owners of the
\* rows under its key that had expired when it was made (expired), the owners
\* of live rows of the same logical request at its lookup (live), the owner
\* of the row that stopped it (blocker, 0 for none), its own row's status.
NoHist == [conc |-> {}, expired |-> {}, live |-> {}, blocker |-> 0, status |-> None]

\* No legacy call made yet.  found: the row the lookup returned, if any;
\* at: the time of the call; added: the rows the call put into the table.
NoLegacyCall ==
  [token |-> << >>, request |-> NoRequest, found |-> << >>, at |-> -1,
   added |-> {}, result |-> "none"]

\* The other subsystems at rest.
IdemQuiet ==
  /\ now = 0
  /\ table = {}
  /\ ipc = [p \in 1..NumCalls |-> "idle"]
  /\ ireq = [p \in 1..NumCalls |-> NoRequest]
  /\ iexp = [p \in 1..NumCalls |-> -1]
  /\ outcome = [p \in 1..NumCalls |-> "none"]
  /\ ihist = [p \in 1..NumCalls |-> NoHist]
  /\ legacy = "none"
  /\ lcall = NoLegacyCall

CodecQuiet ==
  /\ cpc = "input"
  /\ ctext = << >>
  /\ cwire = << >>
  /\ cout = << >>

FreshQuiet ==
  /\ fpc = "start"
  /\ fcache = <<>>
  /\ fdb = <<>>
  /\ fuser = <<>>
  /\ fmargin = 0
  /\ fsets = 0
  /\ fret = <<>>

\* No connection has been made.
RateQuiet ==
  /\ hpc = <<>>
  /\ rl_count = 0
  /\ releases = <<>>

\* The broadcaster as constructed, without any connection.
WsQuiet ==
  /\ alive = <<>>
  /\ active = {}
  /\ sub_task = 0
  /\ hwait = <<>>
  /\ tpc = <<>>
  /\ tcancel = <<>>
  /\ twait = <<>>
  /\ bc = <<>>
  /\ stopped = FALSE
  /\ late = FALSE
  /\ starved = {}
  /\ unremoved = {}

\* No tick published, nothing delivered.
FeedQuiet ==
  /\ pub = 0
  /\ tpos = <<>>
  /\ since = <<>>
  /\ inbox = <<>>

\* No call under way.
CalcQuiet ==
  /\ kpc = "off"
  /\ kin = <<>>
  /\ kout = <<>>

\* No admission attempt made.
GateQuiet ==
  /\ cm_count = 0
  /\ attempt = <<>>
  /\ made = 0
  /\ admitted = <<>>
  /\ rejected = <<>>
  /\ clean = TRUE
  /\ cm_closed = 0

\* No get_valid_signup_otp call made yet.  row: the record returned, if
\* any; at: the call's current_time; spent: the ids spent before the call.
NoLookup ==
  [email |-> None, user_type |-> None, otp_code |-> None, row |-> << >>,
   at |-> -1, spent |-> {}]

\* No signup OTP issued, no lookup made.
OtpQuiet ==
  /\ signup_otps = {}
  /\ otp_now = 0
  /\ next_id = 1
  /\ spent = {}
  /\ otp_ret = NoLookup

\* The other components at rest, for the specification of one component.
IdleOutsideIdem == CodecQuiet /\ FreshQuiet /\ RateQuiet /\ WsQuiet /\ FeedQuiet /\ CalcQuiet /\ GateQuiet /\ OtpQuiet
IdleOutsideCodec == IdemQuiet /\ FreshQuiet /\ RateQuiet /\ WsQuiet /\ FeedQuiet /\ CalcQuiet /\ GateQuiet /\ OtpQuiet
IdleOutsideFresh == IdemQuiet /\ CodecQuiet /\ RateQuiet /\ WsQuiet /\ FeedQuiet /\ CalcQuiet /\ GateQuiet /\ OtpQuiet
IdleOutsideRate == IdemQuiet /\ CodecQuiet /\ FreshQuiet /\ WsQuiet /\ FeedQuiet /\ CalcQuiet /\ GateQuiet /\ OtpQuiet
IdleOutsideWs == IdemQuiet /\ CodecQuiet /\ FreshQuiet /\ FeedQuiet /\ CalcQuiet /\ GateQuiet /\ OtpQuiet
IdleOutsideFeed == IdemQuiet /\ CodecQuiet /\ FreshQuiet /\ CalcQuiet /\ GateQuiet /\ OtpQuiet
IdleOutsideCalc == IdemQuiet /\ CodecQuiet /\ FreshQuiet /\ RateQuiet /\ WsQuiet /\ FeedQuiet /\ GateQuiet /\ OtpQuiet
IdleOutsideGate == IdemQuiet /\ CodecQuiet /\ FreshQuiet /\ WsQuiet /\ FeedQuiet /\ CalcQuiet /\ OtpQuiet
IdleOutsideOtp == IdemQuiet /\ CodecQuiet /\ FreshQuiet /\ RateQuiet /\ WsQuiet /\ FeedQuiet /\ CalcQuiet /\ GateQuiet

IdemInit == IdemQuiet /\ IdleOutsideIdem

InFlight(p) == ipc[p] \in {"check", "select", "create"}

\* The logical request of a call: who asks for what, whatever the order in
\* which the payload's fields were emitted.
Logical(r) ==
  [user_id |-> r.user_id, user_type |-> r.user_type, endpoint |-> r.endpoint,
   data |-> {DictOf(r.request_data)[i] : i \in 1..Len(DictOf(r.request_data))}]

\* The calls whose committed, not yet expired row stands for the same logical
\* request as call p's.
LiveDuplicates(p) ==
  {row.owner : row \in
     {row \in table : /\ Logical(ireq[row.owner]) = Logical(ireq[p])
                      /\ row.expires_at > now}}

\* The calls whose committed row under this key has passed its expires_at.
ExpiredOwners(idempotency_key) ==
  {row.owner : row \in
     {row \in table : row.idempotency_key = idempotency_key /\ row.expires_at < now}}

\* The request reaches its endpoint, which will call
\* handle_backend_idempotency(db, user_id, user_type, endpoint, request_data).
\* (Calls are interchangeable: they arrive in the order of their numbers.)
IdemStart(p, r) ==
  /\ ipc[p] = "idle"
  /\ IF p = 1 THEN r = FirstRequest ELSE ipc[p - 1] # "idle"
  /\ ipc' = [ipc EXCEPT ![p] = "check"]
  /\ ireq' = [ireq EXCEPT ![p] = r]
  /\ ihist' = [q \in Calls |->
       IF q = p THEN [ihist[p] EXCEPT !.conc = {c \in Calls : InFlight(c)},
                                      !.expired = ExpiredOwners(KeyOf(r))]
       ELSE IF InFlight(q) THEN [ihist[q] EXCEPT !.conc = @ \cup {p}]
       ELSE ihist[q]]
  /\ UNCHANGED <<now, table, iexp, outcome>>
  /\ UNCHANGED <<legacy, lcall>>
  /\ UNCHANGED notIdem

\* handle_backend_idempotency derives the key; check_duplicate_request, first
\* half: cleanup_expired_keys takes current_time, deletes and commits.
IdemCleanup(p) ==
  /\ ipc[p] = "check"
  /\ table' = cleanup_expired_keys(table, now)
  /\ ipc' = [ipc EXCEPT ![p] = "select"]
  /\ UNCHANGED <<now, ireq, iexp, outcome, ihist>>
  /\ UNCHANGED <<legacy, lcall>>
  /\ UNCHANGED notIdem

\* check_duplicate_request, second half, and the code up to the commit of
\* create_idempotency_record: the SELECT; a row found is rejected with 429
\* (handle_duplicate_request); otherwise expires_at is computed.
IdemSelect(p) ==
  /\ ipc[p] = "select"
  /\ LET r == ireq[p]
         existing == SelectExisting(table, KeyOf(r), r.user_id, r.user_type, r.endpoint, now)
     IN  /\ ihist' = [ihist EXCEPT ![p].live = LiveDuplicates(p),
                                   ![p].blocker = IF existing = {} THEN 0
                                                  ELSE (CHOOSE row \in existing : TRUE).owner]
         /\ IF Cardinality(existing) > 1
            THEN \* scalar_one_or_none raises MultipleResultsFound
                 /\ outcome' = [outcome EXCEPT ![p] = "error"]
                 /\ ipc' = [ipc EXCEPT ![p] = "done"]
                 /\ UNCHANGED iexp
            ELSE IF existing # {}
            THEN /\ outcome' = [outcome EXCEPT ![p] = "rejected_429"]
                 /\ ipc' = [ipc EXCEPT ![p] = "done"]
                 /\ UNCHANGED iexp
            ELSE /\ iexp' = [iexp EXCEPT ![p] = now + ttl_seconds]
                 /\ ipc' = [ipc EXCEPT ![p] = "create"]
                 /\ UNCHANGED outcome
  /\ UNCHANGED <<now, table, ireq>>
  /\ UNCHANGED <<legacy, lcall>>
  /\ UNCHANGED notIdem

\* create_idempotency_record: db.add; commit.  A key already in the table
\* makes the commit fail; the exception is re-raised after the rollback.
IdemCreate(p) ==
  /\ ipc[p] = "create"
  /\ LET r == ireq[p]
         new_record == [idempotency_key |-> KeyOf(r), user_id |-> r.user_id,
                        user_type |-> r.user_type, endpoint_name |-> r.endpoint,
                        status |-> "processing", expires_at |-> iexp[p], owner |-> p]
     IN  IF UniqueViolation(table, KeyOf(r))
         THEN /\ outcome' = [outcome EXCEPT ![p] = "error"]
              /\ ihist' = [ihist EXCEPT ![p].blocker =
                             (CHOOSE row \in table : row.idempotency_key = KeyOf(r)).owner]
              /\ UNCHANGED table
         ELSE /\ outcome' = [outcome EXCEPT ![p] = "proceed"]
              /\ table' = table \cup {new_record}
              /\ ihist' = [ihist EXCEPT ![p].status = "processing"]
  /\ ipc' = [ipc EXCEPT ![p] = "done"]
  /\ iexp' = [iexp EXCEPT ![p] = -1]      \* expires_at lives on in the row only
  /\ UNCHANGED <<now, ireq>>
  /\ UNCHANGED <<legacy, lcall>>
  /\ UNCHANGED notIdem

\* update_idempotency_record: the owner marks its row completed or failed.
IdemUpdate(p, status) ==
  /\ outcome[p] = "proceed"
  /\ \E row \in table :
       /\ row.owner = p
       /\ row.status = "processing"
       /\ table' = (table \ {row}) \cup {[row EXCEPT !.status = status]}
  /\ ihist' = [ihist EXCEPT ![p].status = status]
  /\ UNCHANGED <<now, ipc, ireq, iexp, outcome>>
  /\ UNCHANGED <<legacy, lcall>>
  /\ UNCHANGED notIdem

\* A second passes.
Tick ==
  /\ now < MaxTime
  /\ now' = now + 1
  /\ UNCHANGED <<table, ipc, ireq, iexp, outcome, ihist>>
  /\ UNCHANGED <<legacy, lcall>>
  /\ UNCHANGED notIdem

\* The tokens a client may send to the legacy handler: a token of its own,
\* or (by whatever accident) the text of a backend-derived key.
LegacyTokens == {<<"uuid4">>, KeyOf(FirstRequest)}

\* handle_idempotency (legacy): SELECT by idempotency_key alone.  A row
\* found has no request_hash equal to the caller's (create_idempotency_record
\* stores none), so HTTP 409 is raised; with no row, the call of
\* create_idempotency_record lacks its request_hash argument and raises
\* TypeError before anything is written.
IdemLegacy(idempotency_key) ==
  /\ legacy = "none"
  /\ legacy' = IF \E row \in table : row.idempotency_key = idempotency_key
               THEN "conflict_409" ELSE "type_error"
  /\ UNCHANGED <<now, table, ipc, ireq, iexp, outcome, ihist, lcall>>
  /\ UNCHANGED notIdem

IdemNext ==
  \/ \E p \in Calls, r \in Requests : IdemStart(p, r)
  \/ \E p \in Calls : IdemCleanup(p)
  \/ \E p \in Calls : IdemSelect(p)
  \/ \E p \in Calls : IdemCreate(p)
  \/ \E p \in Calls, status \in {"completed", "failed"} : IdemUpdate(p, status)
  \/ Tick

SpecIdem == IdemInit /\ [][IdemNext]_vars

\* Both handlers at work on the table: the backend handler, and the legacy
\* handler called with a client's token.  (update_idempotency_record is left
\* out: it changes the status of a row, which no handler reads.)
LegacyInit == IdemQuiet /\ IdleOutsideIdem

LegacyNext ==
  \/ \E p \in Calls, r \in Requests : IdemStart(p, r)
  \/ \E p \in Calls : IdemCleanup(p)
  \/ \E p \in Calls : IdemSelect(p)
  \/ \E p \in Calls : IdemCreate(p)
  \/ \E idempotency_key \in LegacyTokens : IdemLegacy(idempotency_key)
  \/ Tick

SpecLegacy == LegacyInit /\ [][LegacyNext]_vars


(***************************************************************************)
(* Properties of the idempotency service.                                  *)
(***************************************************************************)
Done(p) == ipc[p] = "done"

\* C1: of two concurrent handle_backend_idempotency calls with identical
\* (user_id, user_type, endpoint, request_data), at most one returns a record
\* and the other is rejected as a duplicate with HTTP 429.
C1_ConcurrentPairExclusive ==
  \A p \in Calls : \A q \in Calls \ {p} :
    (/\ Done(p) /\ Done(q)
     /\ ireq[p] = ireq[q]
     /\ q \in ihist[p].conc)
    => \/ outcome[p] = "proceed" /\ outcome[q] = "rejected_429"
       \/ outcome[q] = "proceed" /\ outcome[p] = "rejected_429"

\* C9: a request is never held up by a record whose expires_at had passed
\* when the request was made: a call that does not proceed was stopped by a
\* row that was not yet committed or not yet expired at the call's start,
\* whatever the status of the expired rows.
C9_ExpiredRecordNeverBlocks ==
  \A p \in Calls :
    (Done(p) /\ outcome[p] # "proceed")
    => /\ ihist[p].blocker # 0
       /\ ihist[p].blocker \notin ihist[p].expired

\* C9 witness: a call proceeded although an identical request's record, by
\* then marked completed, existed and had expired before the call was made.
C9_Witness ==
  \E p \in Calls : \E q \in Calls \ {p} :
    /\ outcome[p] = "proceed" /\ outcome[q] = "proceed"
    /\ Logical(ireq[p]) = Logical(ireq[q])
    /\ ihist[p].status = "completed"
    /\ p \in ihist[q].expired

\* C10: a call whose lookup runs while a committed, unexpired record of the
\* same logical request exists (fields in any order, record in any status)
\* is rejected with HTTP 429 and creates no record of its own.
C10_LiveDuplicateRejected ==
  \A p \in Calls :
    (ipc[p] \in {"create", "done"} /\ ihist[p].live # {})
    => /\ outcome[p] = "rejected_429"
       /\ ~ \E row \in table : row.owner = p

\* C10 witness: a call was rejected because of a completed record created by
\* a call that emitted the same payload in another field order.
C10_Witness ==
  \E p \in Calls : \E q \in ihist[p].live :
    /\ outcome[p] = "rejected_429"
    /\ ireq[p].request_data # ireq[q].request_data
    /\ ihist[q].status = "completed"

\* The rows under a key that have not passed their expires_at.
LiveRows(idempotency_key) ==
  {row \in table : row.idempotency_key = idempotency_key /\ row.expires_at > now}

Repeat(ch, n) == [i \in 1..n |-> ch]

\* str.encode('utf-8') for code points below 2048: one byte below 128, else
\* the two bytes 110xxxxx 10xxxxxx.
Utf8Encode(text) ==
  IF \A i \in 1..Len(text) : text[i] < 128 THEN text
  ELSE LET width(i) == IF text[i] < 128 THEN 1 ELSE 2
           start[i \in 1..Len(text)] == IF i = 1 THEN 1 ELSE start[i - 1] + width(i - 1)
           total == IF text = << >> THEN 0 ELSE start[Len(text)] + width(Len(text)) - 1
       IN  [k \in 1..total |->
              LET i == CHOOSE j \in 1..Len(text) : start[j] <= k /\ k < start[j] + width(j)
              IN  IF text[i] < 128 THEN text[i]
                  ELSE IF k = start[i] THEN 192 + (text[i] \div 64)
                  ELSE 128 + (text[i] % 64)]

IsCont(b) == b >= 128 /\ b <= 191
IsLead2(b) == b >= 192 /\ b <= 223

\* Whether bytes.decode('utf-8') succeeds (one- and two-byte sequences).
Utf8Valid(bytes) ==
  \A i \in 1..Len(bytes) :
    \/ bytes[i] < 128
    \/ IsLead2(bytes[i]) /\ i < Len(bytes) /\ IsCont(bytes[i + 1])
    \/ IsCont(bytes[i]) /\ i > 1 /\ IsLead2(bytes[i - 1])

\* bytes.decode('utf-8') of a valid byte string.
Utf8Decode(bytes) ==
  IF \A i \in 1..Len(bytes) : bytes[i] < 128 THEN bytes
  ELSE LET heads == {i \in 1..Len(bytes) : ~IsCont(bytes[i])}
           nth(k) == CHOOSE i \in heads : Cardinality({j \in heads : j <= i}) = k
       IN  [k \in 1..Cardinality(heads) |->
              LET i == nth(k)
              IN  IF bytes[i] < 128 THEN bytes[i]
                  ELSE (bytes[i] - 192) * 64 + (bytes[i + 1] - 128)]

\* The LZ4 frame format of lz4.frame: magic number 0x184D2204 (little
\* endian), the FLG and BD bytes, a header checksum byte, the data block and
\* the end mark.  The block is kept as stored bytes and the checksum byte is
\* a stand-in for xxh32: only the layout of the frame matters here.
Lz4Magic == <<4, 34, 77, 24>>
Lz4EndMark == <<0, 0, 0, 0>>
Lz4HeaderChecksum(data) == (Len(data) * 31 + 7) % 256
Lz4FrameCompress(data) ==
  Lz4Magic \o <<96, 64, Lz4HeaderChecksum(data)>> \o data \o Lz4EndMark

Lz4FrameValid(frame) ==
  /\ Len(frame) >= 11
  /\ SubSeq(frame, 1, 4) = Lz4Magic
  /\ SubSeq(frame, Len(frame) - 3, Len(frame)) = Lz4EndMark
  /\ frame[7] = Lz4HeaderChecksum(SubSeq(frame, 8, Len(frame) - 4))

Lz4FrameDecompress(frame) == SubSeq(frame, 8, Len(frame) - 4)

\* b"LZ4:"
Lz4Tag == <<76, 90, 52, 58>>

StartsWith(bytes, prefix) ==
  Len(bytes) >= Len(prefix) /\ SubSeq(bytes, 1, Len(prefix)) = prefix

compress_lz4(text) ==
  LET data == Utf8Encode(text)
  IN  IF Len(data) > LZ4_COMPRESSION_THRESHOLD
      THEN Lz4FrameCompress(data)
      ELSE data

\* decompress_lz4: any exception gives the empty string.
decompress_lz4(data) ==
  IF StartsWith(data, Lz4Tag)
  THEN LET frame == SubSeq(data, 5, Len(data))
       IN  IF Lz4FrameValid(frame) /\ Utf8Valid(Lz4FrameDecompress(frame))
           THEN Utf8Decode(Lz4FrameDecompress(frame))
           ELSE << >>
  ELSE IF Utf8Valid(data) THEN Utf8Decode(data) ELSE << >>

\* json.dumps output (ASCII, ensure_ascii): a JSON string document of n
\* bytes, the quotes included.
JsonText(n, ch) == <<34>> \o Repeat(ch, n - 2) \o <<34>>

CodecSizes ==
  (2..(2 + SmallSizes))
    \cup ((LZ4_COMPRESSION_THRESHOLD - Near)..(LZ4_COMPRESSION_THRESHOLD + Near))

\* 'a', 'x', '0', '{'
CodecChars == {97, 120, 48, 123}

CodecInit ==
  /\ cpc = "input"
  /\ ctext \in {JsonText(n, ch) : n \in CodecSizes, ch \in CodecChars}
  /\ cwire = << >>
  /\ cout = << >>
  /\ IdleOutsideCodec

\* set_user_data_cache: compressed = compress_lz4(data_serializable); redis.set.
CodecSet ==
  /\ cpc = "input"
  /\ cwire' = compress_lz4(ctext)
  /\ cpc' = "stored"
  /\ UNCHANGED <<ctext, cout>>
  /\ UNCHANGED notCodec

\* get_user_data_cache: data_json = decompress_lz4(data_bytes).
CodecGet ==
  /\ cpc = "stored"
  /\ cout' = decompress_lz4(cwire)
  /\ cpc' = "read"
  /\ UNCHANGED <<ctext, cwire>>
  /\ UNCHANGED notCodec

CodecNext == CodecSet \/ CodecGet

SpecCodec == CodecInit /\ [][CodecNext]_vars

\* C7: what decompress_lz4 returns for the bytes compress_lz4 produced is the
\* text that was encoded, for every encoded size, below, at and above the
\* 512-byte threshold.
C7_RoundTrip == cpc = "read" => cout = ctext

(***************************************************************************)
(*        FRESHNESS: refresh_balance_margin_cache_with_fallback            *)
(* Amounts are whole numbers.  An optional value (a cache entry, a row, a   *)
(* returned dict) is a sequence: <<>> for None, <<v>> for v.  A cache      *)
(* entry carries "numeric", FALSE when a field does not parse as a         *)
(* Decimal.  One user, one call.                                           *)
(***************************************************************************)
Amounts == {-5, 0, 10}
Absent == <<>>
Some(v) == <<v>>
CacheEntries ==
  [wallet_balance : Amounts, margin : Amounts, numeric : {TRUE}]
    \cup {[wallet_balance |-> 0, margin |-> 0, numeric |-> FALSE]}

\* get_user_balance_margin_cache: None for an absent entry, for fields that
\* are not numeric and for a negative margin or balance.
get_user_balance_margin_cache(entry) ==
  IF entry = Absent THEN Absent
  ELSE IF ~entry[1].numeric THEN Absent
  ELSE IF entry[1].margin < 0 THEN Absent
  ELSE IF entry[1].wallet_balance < 0 THEN Absent
  ELSE entry

\* The entry set_user_balance_margin_cache writes: negative amounts become 0.
ClampedEntry(wallet_balance, margin) ==
  Some([wallet_balance |-> IF wallet_balance < 0 THEN 0 ELSE wallet_balance,
        margin |-> IF margin < 0 THEN 0 ELSE margin,
        numeric |-> TRUE])

\* The call is made with a database session ("start") or without one
\* ("start_no_db").
FreshInit ==
  /\ fpc \in {"start", "start_no_db"}
  /\ fcache \in {Absent} \cup {Some(e) : e \in CacheEntries}
  /\ fdb \in {Absent} \cup {Some(u) : u \in [wallet_balance : Amounts, margin : Amounts]}
  /\ fuser = Absent
  /\ fmargin = 0
  /\ fsets = 0
  /\ fret = Absent
  /\ IdleOutsideFresh

\* Strategy 1: the current cache entry is returned when it is valid.
\* Otherwise a call without a session opens one and calls the function again
\* with it ('if not db'); a call with a session goes on to the database.
FreshReadCache ==
  /\ fpc \in {"start", "start_no_db"}
  /\ LET current_cache == get_user_balance_margin_cache(fcache)
     IN  IF /\ current_cache # Absent
            /\ current_cache[1].wallet_balance >= 0
            /\ current_cache[1].margin >= 0
         THEN /\ fret' = Some([wallet_balance |-> current_cache[1].wallet_balance,
                               margin |-> current_cache[1].margin,
                               fallback |-> FALSE])
              /\ fpc' = "done"
         ELSE /\ fpc' = IF fpc = "start_no_db" THEN "start" ELSE "load_user"
              /\ UNCHANGED fret
  /\ UNCHANGED <<fcache, fdb, fuser, fmargin, fsets>>
  /\ UNCHANGED notFresh

\* Strategy 2: get_user_by_id / get_demo_user_by_id; the store may raise.
FreshLoadUser(db_ok) ==
  /\ fpc = "load_user"
  /\ IF ~db_ok THEN fpc' = "fallback" /\ UNCHANGED <<fuser, fret>>
     ELSE IF fdb = Absent THEN fpc' = "done" /\ fret' = Absent /\ UNCHANGED fuser
     ELSE fpc' = "margin" /\ fuser' = fdb /\ UNCHANGED fret
  /\ UNCHANGED <<fcache, fdb, fmargin, fsets>>
  /\ UNCHANGED notFresh

\* calculate_total_user_margin returns total (or raises); a negative total
\* is replaced by 0.
FreshMargin(ok, total) ==
  /\ fpc = "margin"
  /\ IF ~ok THEN fpc' = "fallback" /\ UNCHANGED fmargin
     ELSE /\ fmargin' = IF total < 0 THEN 0 ELSE total
          /\ fpc' = "write"
  /\ UNCHANGED <<fcache, fdb, fuser, fsets, fret>>
  /\ UNCHANGED notFresh

\* set_user_balance_margin_cache(db_user.wallet_balance, total_user_margin):
\* the write reaches Redis or fails silently.
FreshSetCache(write_ok) ==
  /\ fpc = "write"
  /\ fcache' = IF write_ok THEN ClampedEntry(fuser[1].wallet_balance, fmargin) ELSE fcache
  /\ fsets' = fsets + 1
  /\ fpc' = "verify"
  /\ UNCHANGED <<fdb, fuser, fmargin, fret>>
  /\ UNCHANGED notFresh

\* Strategy 3 with the write repeated twice.
FreshVerify_third_attempt(write_ok) ==
  /\ fpc = "verify"
  /\ IF get_user_balance_margin_cache(fcache) = Absent
     THEN /\ fcache' = IF write_ok THEN ClampedEntry(fuser[1].wallet_balance, fmargin) ELSE fcache
          /\ fsets' = fsets + 2
     ELSE UNCHANGED <<fcache, fsets>>
  /\ fret' = Some([wallet_balance |-> fuser[1].wallet_balance, margin |-> fmargin,
                   fallback |-> FALSE])
  /\ fpc' = "done"
  /\ UNCHANGED <<fdb, fuser, fmargin>>
  /\ UNCHANGED notFresh

\* Strategy 3: the entry is read back; when it is missing the write is
\* repeated once.  The call returns db_user.wallet_balance and
\* total_user_margin.
FreshVerify(write_ok) ==
  /\ fpc = "verify"
  /\ IF get_user_balance_margin_cache(fcache) = Absent
     THEN /\ fcache' = IF write_ok THEN ClampedEntry(fuser[1].wallet_balance, fmargin) ELSE fcache
          /\ fsets' = fsets + 1
     ELSE UNCHANGED <<fcache, fsets>>
  /\ fret' = Some([wallet_balance |-> fuser[1].wallet_balance, margin |-> fmargin,
                   fallback |-> FALSE])
  /\ fpc' = "done"
  /\ UNCHANGED <<fdb, fuser, fmargin>>
  /\ UNCHANGED notFresh

\* Strategy 4 with the row's amounts returned untagged.
FreshFallback_untagged(db_ok) ==
  /\ fpc = "fallback"
  /\ fret' = IF db_ok /\ fdb # Absent
             THEN Some([wallet_balance |-> fdb[1].wallet_balance,
                        margin |-> fdb[1].margin, fallback |-> FALSE])
             ELSE Absent
  /\ fpc' = "done"
  /\ UNCHANGED <<fcache, fdb, fuser, fmargin, fsets>>
  /\ UNCHANGED notFresh

\* Strategy 4, after an exception: the row's own wallet_balance and margin,
\* tagged fallback, or None.
FreshFallback(db_ok) ==
  /\ fpc = "fallback"
  /\ fret' = IF db_ok /\ fdb # Absent
             THEN Some([wallet_balance |-> fdb[1].wallet_balance,
                        margin |-> fdb[1].margin, fallback |-> TRUE])
             ELSE Absent
  /\ fpc' = "done"
  /\ UNCHANGED <<fcache, fdb, fuser, fmargin, fsets>>
  /\ UNCHANGED notFresh

FreshNext ==
  \/ FreshReadCache
  \/ \E db_ok \in BOOLEAN : FreshLoadUser(db_ok)
  \/ \E ok \in BOOLEAN, total \in Amounts : FreshMargin(ok, total)
  \/ \E write_ok \in BOOLEAN : FreshSetCache(write_ok)
  \/ \E write_ok \in BOOLEAN : FreshVerify(write_ok)
  \/ \E db_ok \in BOOLEAN : FreshFallback(db_ok)

SpecFresh == FreshInit /\ [][FreshNext]_vars

\* C8: whatever refresh_balance_margin_cache_with_fallback returns (cache
\* hit, refresh from the store, exception fallback) has a non-negative
\* wallet_balance and a non-negative margin.
C8_ReturnNonNegative ==
  (fpc = "done" /\ fret # Absent)
  => /\ fret[1].wallet_balance >= 0
     /\ fret[1].margin >= 0

(***************************************************************************)
(*        ADMISSION: WebSocketRateLimiter and the endpoint handler         *)
(* All connections come from one IP, so they share one counter key.  The   *)
(* connections are the domain of hpc.  A handler stands at                 *)
(*   "idle"      not yet connected                                         *)
(*   "rl_incr"   check_rate_limit read a count below the limit             *)
(*   "rejected"  check_rate_limit returned False, closed with 1008         *)
(*   "admitted"  check_rate_limit returned True                            *)
(*   "rel_get"   release_connection was called                             *)
(*   "rel_decr"  release_connection read a positive count                  *)
(*   "closed"    the handler returned                                      *)
(* and at the positions of the broadcaster section in between.             *)
(***************************************************************************)
Conns == DOMAIN hpc

\* Connections arrive in the order of their numbers (they are interchangeable).
Arrived(c) == hpc[c] # "idle"

\* check_rate_limit up to its first write: GET, int(), comparison with
\* max_connections; at or above the limit it returns False and the endpoint
\* closes the socket with 1008.
RlGet(c) ==
  /\ hpc[c] = "idle"
  /\ \A b \in Conns : b < c => Arrived(b)
  /\ LET current_count == rl_count
     IN  hpc' = [hpc EXCEPT ![c] = IF current_count >= max_connections
                                   THEN "rejected" ELSE "rl_incr"]
  /\ UNCHANGED <<rl_count, releases>>
  /\ UNCHANGED notRate

\* check_rate_limit, the pipeline: INCR and EXPIRE; returns True.
RlIncr(c) ==
  /\ hpc[c] = "rl_incr"
  /\ rl_count' = rl_count + 1
  /\ hpc' = [hpc EXCEPT ![c] = "admitted"]
  /\ UNCHANGED releases
  /\ UNCHANGED notRate

\* release_connection: GET; DECR follows only for a positive count.
RelGet(c) ==
  /\ hpc[c] = "rel_get"
  /\ LET current == rl_count
     IN  hpc' = [hpc EXCEPT ![c] = IF current > 0 THEN "rel_decr" ELSE "closed"]
  /\ UNCHANGED <<rl_count, releases>>
  /\ UNCHANGED notRate

\* release_connection: DECR.
RelDecr(c) ==
  /\ hpc[c] = "rel_decr"
  /\ rl_count' = rl_count - 1
  /\ hpc' = [hpc EXCEPT ![c] = "closed"]
  /\ UNCHANGED releases
  /\ UNCHANGED notRate

\* window_seconds after the last EXPIRE the key is gone.
RlExpire ==
  /\ rl_count # 0
  /\ rl_count' = 0
  /\ UNCHANGED <<hpc, releases>>
  /\ UNCHANGED notRate

\* The connection is served and ends: the handler reaches
\* rate_limiter.release_connection(websocket).
ServeAndLeave(c) ==
  /\ hpc[c] = "admitted"
  /\ hpc' = [hpc EXCEPT ![c] = "rel_get"]
  /\ releases' = [releases EXCEPT ![c] = @ + 1]
  /\ UNCHANGED rl_count
  /\ UNCHANGED notRate

RateInit ==
  /\ hpc = [c \in 1..NumClients |-> "idle"]
  /\ rl_count = 0
  /\ releases = [c \in 1..NumClients |-> 0]
  /\ IdleOutsideRate

RateNext ==
  \/ \E c \in Conns : RlGet(c)
  \/ \E c \in Conns : RlIncr(c)
  \/ \E c \in Conns : ServeAndLeave(c)
  \/ \E c \in Conns : RelGet(c)
  \/ \E c \in Conns : RelDecr(c)
  \/ RlExpire

SpecRate == RateInit /\ [][RateNext]_vars

\* Connections that check_rate_limit admitted and for which
\* release_connection has not been called yet.
AdmittedOpen == {c \in Conns : hpc[c] = "admitted"}

\* C2: at every moment the connections of the IP that were admitted and are
\* not yet released number at most max_connections.
C2_AdmittedWithinLimit == Cardinality(AdmittedOpen) <= max_connections

(***************************************************************************)
(*      FAN-OUT: RawPriceBroadcaster and public_market_data_websocket      *)
(* Everything runs on one event loop: a step is the code between two       *)
(* suspension points.  The _subscriber tasks are the domain of tpc, in the *)
(* order connect creates them.  A task stands at                           *)
(*   "none"        not created                                             *)
(*   "init"        created; pubsub.subscribe                               *)
(*   "wait"        pubsub.get_message                                      *)
(*   "send"        broadcast: connection.send_text for bc[t].cur           *)
(*   "self_await"  broadcast -> disconnect: awaits itself after cancel()   *)
(*   "disc_wait"   broadcast -> disconnect: awaits another task            *)
(*   "done"        returned or cancelled                                   *)
(***************************************************************************)
Tasks == DOMAIN tpc

\* The broadcast call a task is in: the connection being sent to, the
\* elements the set iterator has yet to yield, the size the iterator saw
\* when it was made, the local set disconnected (failed) and what remains
\* of it to clean up (pending); start and got record the subscribers at the
\* start of the call and those whose send_text returned.
NoBc == [cur |-> 0, todo |-> {}, used |-> 0, failed |-> {}, pending |-> {},
         got |-> {}, start |-> {}]

\* The orders in which a for loop may yield the elements of a set.
Orders(S) ==
  {o \in [1..Cardinality(S) -> S] : \A i, j \in 1..Cardinality(S) : o[i] = o[j] => i = j}

\* Task.cancel(): a task suspended in "await other_task" passes the request
\* on to that task and is not itself marked.
RECURSIVE CancelTarget(_)
CancelTarget(u) == IF tpc[u] = "disc_wait" THEN CancelTarget(twait[u]) ELSE u

\* tcancel after task.cancel() on task u: a task waiting in subscribe,
\* get_message or send_text gets CancelledError there; a finished task and a
\* task already cancelling itself are not affected.
AfterCancel(u) ==
  LET v == CancelTarget(u)
  IN  IF tpc[v] \in {"init", "wait", "send"} THEN [tcancel EXCEPT ![v] = TRUE]
      ELSE tcancel

\* "for connection in disconnected: await self.disconnect(connection)" run
\* by task t from the first element of order, up to the end of the loop, a
\* KeyError of set.remove, or a suspension in "await self._subscriber_task".
RECURSIVE CleanupRun(_, _, _, _)
CleanupRun(order, act, sub, t) ==
  IF order = <<>>
  THEN [kind |-> "finished", active |-> act, sub |-> sub, rest |-> {}]
  ELSE LET connection == Head(order)
           rest == {order[i] : i \in 2..Len(order)}
       IN  IF connection \notin act
           THEN [kind |-> "keyerror", active |-> act, sub |-> sub, rest |-> rest]
           ELSE IF act \ {connection} = {} /\ sub # 0
           THEN IF sub = t
                THEN [kind |-> "self_await", active |-> {}, sub |-> sub, rest |-> rest]
                ELSE IF tpc[sub] = "done"
                THEN CleanupRun(Tail(order), {}, 0, t)
                ELSE [kind |-> "disc_wait", active |-> {}, sub |-> sub, rest |-> rest]
           ELSE CleanupRun(Tail(order), act \ {connection}, sub, t)

\* The iterators of the broadcast calls in progress after the set changed:
\* a removed element is not yielded any more; an added element is yielded or
\* not, depending on the slot it landed in (seen: the tasks that will see it).
TrimIter(removed) == [u \in Tasks |-> [bc[u] EXCEPT !.todo = @ \ removed]]
GrowIter(c, seen) ==
  [u \in Tasks |-> IF u \in seen THEN [bc[u] EXCEPT !.todo = @ \cup {c}] ELSE bc[u]]

\* broadcaster.connect: accept; add; the first subscriber starts a task.
HConnect(c, seen) ==
  /\ hpc[c] = "admitted"
  /\ seen \subseteq {u \in Tasks : tpc[u] = "send"}
  /\ active' = active \cup {c}
  /\ bc' = GrowIter(c, seen)
  /\ IF Cardinality(active') = 1
     THEN LET k == CHOOSE k \in Tasks : tpc[k] = "none" /\ \A j \in Tasks : j < k => tpc[j] # "none"
          IN  /\ tpc' = [tpc EXCEPT ![k] = "init"]
              /\ sub_task' = k
     ELSE UNCHANGED <<tpc, sub_task>>
  /\ stopped' = FALSE
  /\ hpc' = [hpc EXCEPT ![c] = "snapshot"]
  /\ UNCHANGED <<rl_count, releases, alive, hwait, tcancel, twait, late, starved, unremoved>>
  /\ UNCHANGED notWs

\* get_initial_snapshot and the snapshot message; errors are logged.
HSnapshot(c) ==
  /\ hpc[c] = "snapshot"
  /\ hpc' = [hpc EXCEPT ![c] = "recv"]
  /\ UNCHANGED <<rl_count, releases>>
  /\ UNCHANGED wsVars
  /\ UNCHANGED notWs

\* The client goes away: from now on send_text to it raises and its
\* receive_text raises WebSocketDisconnect.
ClientDrop(c) ==
  /\ hpc[c] \in {"snapshot", "recv"}
  /\ alive[c]
  /\ alive' = [alive EXCEPT ![c] = FALSE]
  /\ UNCHANGED rateVars
  /\ UNCHANGED <<active, sub_task, hwait, tpc, tcancel, twait, bc, stopped, late, starved, unremoved>>
  /\ UNCHANGED notWs

\* receive_text raised WebSocketDisconnect; finally: broadcaster.disconnect,
\* up to its suspension or its return; after the return the handler calls
\* release_connection.  A KeyError of set.remove leaves the finally block and
\* is caught by the outer handler, which closes the socket with 1011.
HDisconnect(c) ==
  /\ hpc[c] = "recv"
  /\ ~alive[c]
  /\ IF c \notin active
     THEN /\ hpc' = [hpc EXCEPT ![c] = "closed"]
          /\ UNCHANGED <<releases, active, bc, sub_task, tcancel, hwait, stopped>>
     ELSE /\ active' = active \ {c}
          /\ bc' = TrimIter({c})
          /\ IF active' = {} /\ sub_task # 0 /\ tpc[sub_task] # "done"
             THEN /\ tcancel' = AfterCancel(sub_task)
                  /\ hwait' = [hwait EXCEPT ![c] = sub_task]
                  /\ hpc' = [hpc EXCEPT ![c] = "disc_wait"]
                  /\ UNCHANGED <<releases, sub_task, stopped>>
             ELSE /\ sub_task' = IF active' = {} THEN 0 ELSE sub_task
                  /\ stopped' = (active' = {})
                  /\ hpc' = [hpc EXCEPT ![c] = "rel_get"]
                  /\ releases' = [releases EXCEPT ![c] = @ + 1]
                  /\ UNCHANGED <<tcancel, hwait>>
  /\ UNCHANGED <<rl_count, alive, tpc, twait, late, starved, unremoved>>
  /\ UNCHANGED notWs

\* The awaited task has finished: _subscriber_task = None; disconnect
\* returns and the handler calls release_connection.
HResume(c) ==
  /\ hpc[c] = "disc_wait"
  /\ tpc[hwait[c]] = "done"
  /\ sub_task' = 0
  /\ hwait' = [hwait EXCEPT ![c] = 0]
  /\ stopped' = (active = {})
  /\ hpc' = [hpc EXCEPT ![c] = "rel_get"]
  /\ releases' = [releases EXCEPT ![c] = @ + 1]
  /\ UNCHANGED <<rl_count, alive, active, tpc, tcancel, twait, bc, late, starved, unremoved>>
  /\ UNCHANGED notWs

\* The first run of a created task: subscribe returns and the loop begins.
TaskStart(t) ==
  /\ tpc[t] = "init"
  /\ ~tcancel[t]
  /\ tpc' = [tpc EXCEPT ![t] = "wait"]
  /\ UNCHANGED rateVars
  /\ UNCHANGED <<alive, active, sub_task, hwait, tcancel, twait, bc, stopped, late,
                 starved, unremoved>>
  /\ UNCHANGED notWs

\* CancelledError arrives at the await the task is suspended in: outside
\* the loop the task ends cancelled; inside, "except CancelledError: break".
TaskCancelled(t) ==
  /\ tpc[t] \in {"init", "wait", "send"}
  /\ tcancel[t]
  /\ tpc' = [tpc EXCEPT ![t] = "done"]
  /\ tcancel' = [tcancel EXCEPT ![t] = FALSE]
  /\ bc' = [bc EXCEPT ![t] = NoBc]
  /\ UNCHANGED rateVars
  /\ UNCHANGED <<alive, active, sub_task, hwait, twait, stopped, late, starved, unremoved>>
  /\ UNCHANGED notWs

\* The end of a broadcast call of task t (by return or by an exception that
\* _subscriber logs), with b the call's record and act the set it leaves.
EndBroadcast(t, b, act) ==
  /\ tpc' = [tpc EXCEPT ![t] = "wait"]
  /\ twait' = [twait EXCEPT ![t] = 0]
  /\ bc' = [u \in Tasks |-> IF u = t THEN NoBc
                           ELSE [bc[u] EXCEPT !.todo = @ \ (active \ act)]]
  /\ IF b.failed # {}
     THEN /\ starved' = (b.start \cap act) \ (b.failed \cup b.got)
          /\ unremoved' = b.failed \cap act
     ELSE UNCHANGED <<starved, unremoved>>

\* The clean-up loop of broadcast, run by task t over order, the elements
\* of disconnected not yet handled; sub is _subscriber_task as the loop
\* finds it and st0 is stopped as it finds it.
RunCleanup(t, b, order, sub, st0) ==
  LET r == CleanupRun(order, active, sub, t)
  IN  /\ active' = r.active
      /\ stopped' = IF r.kind \in {"finished", "keyerror"} /\ r.active # active
                    THEN r.active = {} ELSE st0
      /\ IF r.kind \in {"finished", "keyerror"}
         THEN /\ EndBroadcast(t, b, r.active)
              /\ sub_task' = r.sub
              /\ UNCHANGED tcancel
         ELSE /\ bc' = [u \in Tasks |->
                          IF u = t THEN [b EXCEPT !.pending = r.rest, !.todo = {}]
                          ELSE [bc[u] EXCEPT !.todo = @ \ (active \ r.active)]]
              /\ sub_task' = r.sub
              /\ UNCHANGED <<starved, unremoved>>
              /\ IF r.kind = "self_await"
                 THEN /\ tpc' = [tpc EXCEPT ![t] = "self_await"]
                      /\ UNCHANGED <<tcancel, twait>>
                 ELSE /\ tpc' = [tpc EXCEPT ![t] = "disc_wait"]
                      /\ twait' = [twait EXCEPT ![t] = r.sub]
                      /\ tcancel' = AfterCancel(r.sub)

\* get_message returns a tick with prices to publish; broadcast starts: the
\* iterator over active_connections is made and yields its first element.
TaskTick(t) ==
  /\ tpc[t] = "wait"
  /\ ~tcancel[t]
  /\ late' = (late \/ stopped)
  /\ IF active = {}
     THEN UNCHANGED <<tpc, bc>>
     ELSE \E connection \in active :
            /\ bc' = [bc EXCEPT ![t] =
                        [cur |-> connection, todo |-> active \ {connection},
                         used |-> Cardinality(active), failed |-> {}, pending |-> {},
                         got |-> {}, start |-> active]]
            /\ tpc' = [tpc EXCEPT ![t] = "send"]
  /\ UNCHANGED rateVars
  /\ UNCHANGED <<alive, active, sub_task, hwait, tcancel, twait, stopped, starved, unremoved>>
  /\ UNCHANGED notWs

\* send_text returns or raises; the iterator is asked for the next element:
\* RuntimeError when the set's size is not the one it saw, the next
\* connection, or the end of the loop and the clean-up of disconnected.
TaskSend(t) ==
  /\ tpc[t] = "send"
  /\ ~tcancel[t]
  /\ LET sent == alive[bc[t].cur]
         b == [bc[t] EXCEPT !.failed = IF sent THEN @ ELSE @ \cup {bc[t].cur},
                            !.got = IF sent THEN @ \cup {bc[t].cur} ELSE @]
     IN  IF Cardinality(active) # b.used
         THEN /\ EndBroadcast(t, b, active)
              /\ UNCHANGED <<active, sub_task, tcancel, stopped>>
         ELSE IF b.todo # {}
         THEN /\ \E connection \in b.todo :
                   bc' = [bc EXCEPT ![t] = [b EXCEPT !.cur = connection,
                                                     !.todo = @ \ {connection}]]
              /\ UNCHANGED <<active, sub_task, tpc, tcancel, twait, stopped, starved,
                             unremoved>>
         ELSE \E order \in Orders(b.failed) :
                RunCleanup(t, b, order, sub_task, stopped)
  /\ UNCHANGED rateVars
  /\ UNCHANGED <<alive, hwait, late>>
  /\ UNCHANGED notWs

\* The task resumes from "await self._subscriber_task" on itself: the
\* CancelledError of its own cancel() is raised there and passed over;
\* _subscriber_task = None; disconnect returns and the clean-up goes on.
TaskSelfResume(t) ==
  /\ tpc[t] = "self_await"
  /\ \E order \in Orders(bc[t].pending) :
       RunCleanup(t, bc[t], order, 0, active = {})
  /\ UNCHANGED rateVars
  /\ UNCHANGED <<alive, hwait, late>>
  /\ UNCHANGED notWs

\* The other task that the task's disconnect call awaits has finished.
TaskAwaitResume(t) ==
  /\ tpc[t] = "disc_wait"
  /\ tpc[twait[t]] = "done"
  /\ \E order \in Orders(bc[t].pending) :
       RunCleanup(t, bc[t], order, 0, active = {})
  /\ UNCHANGED rateVars
  /\ UNCHANGED <<alive, hwait, late>>
  /\ UNCHANGED notWs

WsInit ==
  /\ hpc = [c \in 1..NumConn |-> "idle"]
  /\ rl_count = 0
  /\ releases = [c \in 1..NumConn |-> 0]
  /\ alive = [c \in 1..NumConn |-> TRUE]
  /\ active = {}
  /\ sub_task = 0
  /\ hwait = [c \in 1..NumConn |-> 0]
  /\ tpc = [t \in 1..NumConn |-> "none"]
  /\ tcancel = [t \in 1..NumConn |-> FALSE]
  /\ twait = [t \in 1..NumConn |-> 0]
  /\ bc = [t \in 1..NumConn |-> NoBc]
  /\ stopped = FALSE
  /\ late = FALSE
  /\ starved = {}
  /\ unremoved = {}
  /\ IdleOutsideWs

WsNext ==
  \/ \E c \in Conns : RlGet(c)
  \/ \E c \in Conns : RlIncr(c)
  \/ \E c \in Conns, seen \in SUBSET Tasks : HConnect(c, seen) /\ UNCHANGED feedVars
  \/ \E c \in Conns : HSnapshot(c) /\ UNCHANGED feedVars
  \/ \E c \in Conns : ClientDrop(c) /\ UNCHANGED feedVars
  \/ \E c \in Conns : HDisconnect(c) /\ UNCHANGED feedVars
  \/ \E c \in Conns : HResume(c) /\ UNCHANGED feedVars
  \/ \E c \in Conns : RelGet(c)
  \/ \E c \in Conns : RelDecr(c)
  \/ \E t \in Tasks : TaskStart(t) /\ UNCHANGED feedVars
  \/ \E t \in Tasks : TaskCancelled(t) /\ UNCHANGED feedVars
  \/ \E t \in Tasks : TaskTick(t) /\ UNCHANGED feedVars
  \/ \E t \in Tasks : TaskSend(t) /\ UNCHANGED feedVars
  \/ \E t \in Tasks : TaskSelfResume(t) /\ UNCHANGED feedVars
  \/ \E t \in Tasks : TaskAwaitResume(t) /\ UNCHANGED feedVars

SpecWs == WsInit /\ [][WsNext]_vars

(***************************************************************************)
(* Properties of the broadcaster and the endpoint.                         *)
(***************************************************************************)
\* The _subscriber tasks that are running: created, not finished, and with
\* no cancellation requested that has yet to reach them.
RunningTasks ==
  {t \in Tasks : tpc[t] \notin {"none", "self_await", "done"} /\ ~tcancel[t]}

\* C3: whenever active_connections is non-empty, exactly one _subscriber
\* task is running.
C3_OneSubscriberTask == active # {} => Cardinality(RunningTasks) = 1

\* C4: release_connection is called at most once for a connection, and a
\* connection that was admitted and whose handler has ended had it called
\* exactly once, whichever way the connection left the subscriber set.
C4_ReleasedExactlyOnce ==
  \A c \in Conns :
    /\ releases[c] <= 1
    /\ hpc[c] = "closed" => releases[c] = 1

\* C5: when a broadcast call in which some send_text raised has ended, none
\* of the subscribers whose send raised is in active_connections, and every
\* other subscriber that was in the set during the whole call received the
\* message.
C5_BroadcastIsolation == unremoved = {} /\ starved = {}

\* C6: after a disconnect call that left active_connections empty has
\* returned (and until the next subscriber connects), no _subscriber task
\* takes a tick from the channel.
C6_NoTickAfterStop == ~late

\* C12: the counter of the IP is never below zero, whatever the
\* interleaving of release_connection calls and expiries of the key.
C12_CounterNeverNegative == rl_count >= 0

(***************************************************************************)
(*     THE FEED AS SUBSCRIBERS SEE IT: snapshot first, ticks in order      *)
(* The same handlers and tasks, with the ticks of the channel numbered in  *)
(* publish order and every message a connection receives recorded.  A      *)
(* task's subscription delivers the ticks published after it subscribed.   *)
(***************************************************************************)
Snapshot == 0

\* A tick with prices of whitelisted symbols is published on the channel.
Publish ==
  /\ pub < MaxTicks
  /\ pub' = pub + 1
  /\ UNCHANGED <<tpos, since, inbox>>
  /\ UNCHANGED <<rateVars, wsVars>>
  /\ UNCHANGED notWs

\* pubsub.subscribe returned: the subscription starts after the last
\* published tick.
FeedTaskStart(t) ==
  /\ TaskStart(t)
  /\ tpos' = [tpos EXCEPT ![t] = pub]
  /\ UNCHANGED <<pub, since, inbox>>

\* get_message returns the next tick of the task's subscription.
FeedTaskTick(t) ==
  /\ tpos[t] < pub
  /\ TaskTick(t)
  /\ tpos' = [tpos EXCEPT ![t] = @ + 1]
  /\ UNCHANGED <<pub, since, inbox>>

\* send_text of the update for the task's tick returned: the connection has
\* received it.
FeedTaskSend(t) ==
  /\ TaskSend(t)
  /\ inbox' = IF alive[bc[t].cur]
              THEN [inbox EXCEPT ![bc[t].cur] = Append(@, tpos[t])]
              ELSE inbox
  /\ UNCHANGED <<pub, tpos, since>>

\* get_initial_snapshot; the snapshot message is sent when the cache held a
\* price for some symbol (has_prices) and the client is still there.
FeedSnapshot(c, has_prices) ==
  /\ HSnapshot(c)
  /\ inbox' = IF has_prices /\ alive[c]
              THEN [inbox EXCEPT ![c] = Append(@, Snapshot)]
              ELSE inbox
  /\ UNCHANGED <<pub, tpos, since>>

\* connect added the connection to active_connections: it is subscribed to
\* the ticks published from now on.
FeedConnect(c, seen) ==
  /\ HConnect(c, seen)
  /\ since' = [since EXCEPT ![c] = pub]
  /\ UNCHANGED <<pub, tpos, inbox>>

FeedInit ==
  /\ hpc = [c \in 1..NumFeedConn |-> "idle"]
  /\ rl_count = 0
  /\ releases = [c \in 1..NumFeedConn |-> 0]
  /\ alive = [c \in 1..NumFeedConn |-> TRUE]
  /\ active = {}
  /\ sub_task = 0
  /\ hwait = [c \in 1..NumFeedConn |-> 0]
  /\ tpc = [t \in 1..NumFeedConn |-> "none"]
  /\ tcancel = [t \in 1..NumFeedConn |-> FALSE]
  /\ twait = [t \in 1..NumFeedConn |-> 0]
  /\ bc = [t \in 1..NumFeedConn |-> NoBc]
  /\ stopped = FALSE
  /\ late = FALSE
  /\ starved = {}
  /\ unremoved = {}
  /\ pub = 0
  /\ tpos = [t \in 1..NumFeedConn |-> 0]
  /\ since = [c \in 1..NumFeedConn |-> 0]
  /\ inbox = [c \in 1..NumFeedConn |-> <<>>]
  /\ IdleOutsideFeed

FeedNext ==
  \/ Publish
  \/ \E c \in Conns : RlGet(c)
  \/ \E c \in Conns : RlIncr(c)
  \/ \E c \in Conns, seen \in SUBSET Tasks : FeedConnect(c, seen)
  \/ \E c \in Conns, has_prices \in BOOLEAN : FeedSnapshot(c, has_prices)
  \/ \E c \in Conns : ClientDrop(c) /\ UNCHANGED feedVars
  \/ \E c \in Conns : HDisconnect(c) /\ UNCHANGED feedVars
  \/ \E c \in Conns : HResume(c) /\ UNCHANGED feedVars
  \/ \E c \in Conns : RelGet(c)
  \/ \E c \in Conns : RelDecr(c)
  \/ \E t \in Tasks : FeedTaskStart(t)
  \/ \E t \in Tasks : TaskCancelled(t) /\ UNCHANGED feedVars
  \/ \E t \in Tasks : FeedTaskTick(t)
  \/ \E t \in Tasks : FeedTaskSend(t)
  \/ \E t \in Tasks : TaskSelfResume(t) /\ UNCHANGED feedVars
  \/ \E t \in Tasks : TaskAwaitResume(t) /\ UNCHANGED feedVars

SpecFeed == FeedInit /\ [][FeedNext]_vars

\* The update messages a connection received for ticks published while it
\* was subscribed, in order of arrival.
Updates(c) == SelectSeq(inbox[c], LAMBDA m : m > since[c])
SnapshotCount(c) == Len(SelectSeq(inbox[c], LAMBDA m : m = Snapshot))

\* C13: the first message a subscriber receives is the snapshot, it receives
\* no second snapshot, and a subscriber that is past the snapshot step and
\* still connected has received one.
C13_SnapshotOnceAndFirst ==
  \A c \in Conns :
    /\ inbox[c] # <<>> => inbox[c][1] = Snapshot
    /\ SnapshotCount(c) <= 1
    /\ (hpc[c] = "recv" /\ alive[c]) => SnapshotCount(c) = 1

\* C14: the updates a connection receives come in publish order: none is
\* for an earlier tick than an update received before it.
C14_UpdatesInPublishOrder ==
  \A c \in Conns : \A i, j \in 1..Len(Updates(c)) :
    i < j => Updates(c)[i] <= Updates(c)[j]

(***************************************************************************)
(*        THE SYMBOL FILTER OF THE FAN-IN TASK (_subscriber, one tick)     *)
(* A symbol is the sequence of its characters.  A tick batch is a dict     *)
(* from symbols to price entries; a price entry is a dict of fields or     *)
(* something that is no dict.                                              *)
(***************************************************************************)
US30 == <<"U", "S", "3", "0">>
us30 == <<"u", "s", "3", "0">>
EURNZD == <<"E", "U", "R", "N", "Z", "D">>
FOO123 == <<"F", "O", "O", "1", "2", "3">>

\* self.symbols_to_broadcast, as far as the characters used here can spell it.
symbols_to_broadcast == {US30, EURNZD}

TickSymbols == {US30, us30, FOO123}

\* str.upper on one character.
UpperChar(ch) ==
  CASE ch = "u" -> "U"
    [] ch = "s" -> "S"
    [] OTHER -> ch

\* str.upper.
Upper(symbol) == [i \in DOMAIN symbol |-> UpperChar(symbol[i])]

\* The items of a price entry: a set of <<field, value>>.
PriceEntries ==
  { [isdict |-> TRUE, items |-> {<<"b", "1.25">>, <<"o", "1.30">>}],
    [isdict |-> TRUE, items |-> {<<"b", "1.25">>}],
    [isdict |-> TRUE, items |-> {<<"o", "1.30">>, <<"bid", "1.20">>}],
    [isdict |-> TRUE, items |-> {<<"bid", "1.20">>, <<"ask", "1.35">>}],
    [isdict |-> FALSE, items |-> {<<"b", "1.25">>}] }

\* 'field in prices'
HasField(prices, field) == \E item \in prices.items : item[1] = field

\* prices.get(field, default)
DictGet(prices, field, default) ==
  IF HasField(prices, field)
  THEN Some((CHOOSE item \in prices.items : item[1] = field)[2])
  ELSE default

\* The comprehension that keeps every entry of the batch.
filtered_data_unfiltered(market_data) == DOMAIN market_data

\* The symbols of the comprehension 'filtered_data'.
filtered_data(market_data) ==
  {symbol \in DOMAIN market_data :
     /\ Upper(symbol) \in symbols_to_broadcast
     /\ market_data[symbol].isdict
     /\ HasField(market_data[symbol], "b") \/ HasField(market_data[symbol], "o")}

\* The reshaping that reads the short fields 'b' and 'o' only.
public_data_short_fields_only(market_data, timestamp) ==
  [symbol \in filtered_data(market_data) |->
     [bid |-> DictGet(market_data[symbol], "b", Absent),
      ask |-> DictGet(market_data[symbol], "o", Absent),
      timestamp |-> timestamp]]

\* public_data: the reshaped entries.
public_data(market_data, timestamp) ==
  [symbol \in filtered_data(market_data) |->
     [bid |-> DictGet(market_data[symbol], "b",
                      DictGet(market_data[symbol], "bid", Absent)),
      ask |-> DictGet(market_data[symbol], "o",
                      DictGet(market_data[symbol], "ask", Absent)),
      timestamp |-> timestamp]]

\* The message one tick makes the task broadcast, if any.
UpdateMessage(market_data, timestamp) ==
  IF filtered_data(market_data) # {}
  THEN Some([type |-> "update", data |-> public_data(market_data, timestamp)])
  ELSE Absent

TickBatches ==
  UNION {[keys -> PriceEntries] : keys \in SUBSET TickSymbols}

FilterInit ==
  /\ kpc = "tick"
  /\ kin \in [market_data : TickBatches, timestamp : {Absent, Some("t1")}]
  /\ kout = Absent
  /\ IdleOutsideCalc

\* One round of the loop of _subscriber with a message from the channel.
FilterTick ==
  /\ kpc = "tick"
  /\ kpc' = "sent"
  /\ kout' = UpdateMessage(kin.market_data, kin.timestamp)
  /\ UNCHANGED kin
  /\ UNCHANGED notCalc

FilterNext == FilterTick

SpecFilter == FilterInit /\ [][FilterNext]_vars

\* The symbols of the message that was broadcast.
DeliveredSymbols == IF kout = Absent THEN {} ELSE DOMAIN kout[1].data

Deliverable ==
  {symbol \in DOMAIN kin.market_data :
     /\ Upper(symbol) \in symbols_to_broadcast
     /\ kin.market_data[symbol].isdict
     /\ \E item \in kin.market_data[symbol].items : item[1] \in {"b", "o"}}

\* The values an entry of the batch holds under a field: none or one.
Held(symbol, field) ==
  {item[2] : item \in {i \in kin.market_data[symbol].items : i[1] = field}}

\* A delivered side is the value of the short field, null without it.
ShortOrNull(side, symbol, short) ==
  IF Held(symbol, short) # {} THEN side # Absent /\ side[1] \in Held(symbol, short)
  ELSE side = Absent

\* A delivered side is the value of the short field, without it the value
\* of the long field, and null without both.
ShortLongOrNull(side, symbol, short, long) ==
  IF Held(symbol, short) # {} THEN side # Absent /\ side[1] \in Held(symbol, short)
  ELSE IF Held(symbol, long) # {} THEN side # Absent /\ side[1] \in Held(symbol, long)
  ELSE side = Absent

\* C33 as stated: the update message holds exactly the entries of the batch
\* that are whitelisted in upper case, are objects and carry b or o, each as
\* {bid, ask, timestamp} where bid is the entry's b, ask is its o, and the
\* side whose field is missing is null.
C33_MissingSideNull ==
  kpc = "sent" =>
    /\ DeliveredSymbols = Deliverable
    /\ \A symbol \in DeliveredSymbols :
         /\ ShortOrNull(kout[1].data[symbol].bid, symbol, "b")
         /\ ShortOrNull(kout[1].data[symbol].ask, symbol, "o")
         /\ kout[1].data[symbol].timestamp = kin.timestamp

\* C33, amended: the same entries are delivered; bid is the entry's b, or
\* its 'bid' when it has no b, and ask is its o, or its 'ask' when it has
\* no o; a side is null only when the entry has neither of its two fields.
C33_MissingSideFallsBack ==
  kpc = "sent" =>
    /\ DeliveredSymbols = Deliverable
    /\ \A symbol \in DeliveredSymbols :
         /\ ShortLongOrNull(kout[1].data[symbol].bid, symbol, "b", "bid")
         /\ ShortLongOrNull(kout[1].data[symbol].ask, symbol, "o", "ask")
         /\ kout[1].data[symbol].timestamp = kin.timestamp

\* An entry with only b was delivered with ask null, next to an entry
\* without b whose bid was taken from its 'bid'.
C33_Witness ==
  /\ kpc = "sent"
  /\ DeliveredSymbols = {US30, us30}
  /\ kin.market_data[US30].items = {<<"b", "1.25">>}
  /\ kout[1].data[US30].bid = Some("1.25") /\ kout[1].data[US30].ask = Absent
  /\ Held(us30, "b") = {} /\ kout[1].data[us30].bid = Some("1.20")

(***************************************************************************)
(*   DECIMALS THROUGH JSON: json.dumps(cls=DecimalEncoder) and             *)
(*   json.loads(object_hook=decode_decimal)                                *)
(* A text is the sequence of its characters.  A Python value is a record   *)
(* of its type and its text: for a Decimal the text is str(value), which   *)
(* keeps the digits and the exponent of the value.                         *)
(***************************************************************************)
TextChars == {"0", "1", ".", "x"}
Digits == {"0", "1"}
Texts == UNION {[1..n -> TextChars] : n \in 1..MaxText}

\* The position of the first "." of a text, or 0.
DotPos(text) ==
  IF \E i \in DOMAIN text : text[i] = "."
  THEN CHOOSE i \in DOMAIN text :
         text[i] = "." /\ \A j \in 1..(i - 1) : text[j] # "."
  ELSE 0

IntPart(text) ==
  IF DotPos(text) = 0 THEN text ELSE SubSeq(text, 1, DotPos(text) - 1)

FracPart(text) ==
  IF DotPos(text) = 0 THEN <<>> ELSE SubSeq(text, DotPos(text) + 1, Len(text))

AllDigits(text) == \A i \in DOMAIN text : text[i] \in Digits

\* decimal.Decimal(text) does not raise InvalidOperation: digits with at
\* most one point and at least one digit.
IsDecimalLiteral(text) ==
  /\ AllDigits(IntPart(text))
  /\ AllDigits(FracPart(text))
  /\ Len(IntPart(text)) + Len(FracPart(text)) >= 1

\* The coefficient's integer digits as str prints them: no leading zeros,
\* "0" when there are none.
RECURSIVE StripZeros(_)
StripZeros(digits) ==
  IF digits = <<>> THEN <<"0">>
  ELSE IF Len(digits) > 1 /\ Head(digits) = "0" THEN StripZeros(Tail(digits))
  ELSE digits

\* str(decimal.Decimal(text)) for a literal without exponent.
DecimalStr(text) ==
  StripZeros(IntPart(text)) \o
    (IF FracPart(text) = <<>> THEN <<>> ELSE <<".">> \o FracPart(text))

PyDecimal(text) == [type |-> "Decimal", text |-> DecimalStr(text)]
PyStr(text) == [type |-> "str", text |-> text]
PyInt(text) == [type |-> "int", text |-> text]

Decimals == {PyDecimal(text) : text \in {t \in Texts : IsDecimalLiteral(t)}}
Strs == {PyStr(text) : text \in Texts}
Ints == {PyInt(<<"1">>), PyInt(<<"1", "0">>)}

\* What json.dumps writes for one value: DecimalEncoder.default turns a
\* Decimal into str(o), which is written as a JSON string.
DecimalEncoder(o) ==
  IF o.type = "int" THEN [json |-> "number", text |-> o.text]
  ELSE [json |-> "string", text |-> o.text]

\* What json.loads makes of one JSON value before the object hook.
JsonLoad(j) == IF j.json = "number" THEN PyInt(j.text) ELSE PyStr(j.text)

\* decode_decimal on a value of a dict: a str that Decimal accepts becomes
\* that Decimal.
decode_decimal(obj) ==
  IF obj.type = "str" /\ IsDecimalLiteral(obj.text)
  THEN PyDecimal(obj.text)
  ELSE obj

\* json.dumps(data, cls=DecimalEncoder) of a dict, field by field.
Dumps(data) == [k \in DOMAIN data |-> DecimalEncoder(data[k])]

\* json.loads(text, object_hook=decode_decimal) of that JSON object.
Loads(doc) == [k \in DOMAIN doc |-> decode_decimal(JsonLoad(doc[k]))]

\* A cached dict with a Decimal field and a field of any type.
DecimalInit ==
  /\ kpc = "value"
  /\ kin \in [amount : Decimals, ref : Decimals \cup Strs \cup Ints]
  /\ kout = Absent
  /\ IdleOutsideCalc

DecimalEncode ==
  /\ kpc = "value"
  /\ kpc' = "encoded"
  /\ kout' = Dumps(kin)
  /\ UNCHANGED kin
  /\ UNCHANGED notCalc

DecimalDecode ==
  /\ kpc = "encoded"
  /\ kpc' = "decoded"
  /\ kout' = Loads(kout)
  /\ UNCHANGED kin
  /\ UNCHANGED notCalc

DecimalNext == DecimalEncode \/ DecimalDecode

SpecDecimal == DecimalInit /\ [][DecimalNext]_vars

\* C16: decoding the encoding gives the original value back: every Decimal
\* with its string form, every other field with its type and value.
C16_DecimalRoundTrip == kpc = "decoded" => kout = kin

(***************************************************************************)
(*            CACHE FUNCTIONS WHEN THE REDIS CLIENT RAISES                 *)
(* The last-known-price key and the external-symbol-info key of one        *)
(* symbol, and calls of the functions of cache.py that use them.  Every    *)
(* call finds Redis answering or raising (redis_error).  kin is the store, *)
(* kout the outcome of the last call.                                      *)
(***************************************************************************)
Documents == {"doc1", "doc2", "doc3"}

NoCall ==
  [fn |-> "none", redis_error |-> FALSE, raised |-> FALSE, returned |-> Absent]

\* A call that returned value (None is Absent).
Returned(fn, redis_error, value) ==
  [fn |-> fn, redis_error |-> redis_error, raised |-> FALSE, returned |-> value]

\* A call that let the exception of the Redis client through to its caller.
Raised(fn) ==
  [fn |-> fn, redis_error |-> TRUE, raised |-> TRUE, returned |-> Absent]

FaultInit ==
  /\ kpc = "serving"
  /\ kin = [last_price |-> Absent, external_symbol_info |-> Absent]
  /\ kout = NoCall
  /\ IdleOutsideCalc

\* set_last_known_price: redis.set inside try / except Exception.
SetLastKnownPrice(price_data, redis_error) ==
  /\ kpc = "serving"
  /\ kin' = IF redis_error THEN kin
            ELSE [kin EXCEPT !.last_price = Some(price_data)]
  /\ kout' = Returned("set_last_known_price", redis_error, Absent)
  /\ UNCHANGED kpc
  /\ UNCHANGED notCalc

\* get_last_known_price: redis.get inside try / except Exception: return None.
GetLastKnownPrice(redis_error) ==
  /\ kpc = "serving"
  /\ kout' = Returned("get_last_known_price", redis_error,
                      IF redis_error THEN Absent ELSE kin.last_price)
  /\ UNCHANGED <<kpc, kin>>
  /\ UNCHANGED notCalc

\* The dict get_order_placement_data_batch returns: the last price and the
\* number of keys found (the other four keys are not set here).
BatchResult(last_price) ==
  [last_price |-> last_price,
   cache_hits |-> IF last_price = Absent THEN 0 ELSE 1]

\* get_order_placement_data_batch: redis.mget inside try / except Exception:
\* return the dict of Nones with cache_hits 0.
GetOrderPlacementDataBatch(redis_error) ==
  /\ kpc = "serving"
  /\ kout' = Returned("get_order_placement_data_batch", redis_error,
                      Some(BatchResult(IF redis_error THEN Absent
                                       ELSE kin.last_price)))
  /\ UNCHANGED <<kpc, kin>>
  /\ UNCHANGED notCalc

\* set_external_symbol_info_cache: 'await redis_client.set(...)' with no try.
SetExternalSymbolInfoCache(info, redis_error) ==
  /\ kpc = "serving"
  /\ kin' = IF redis_error THEN kin
            ELSE [kin EXCEPT !.external_symbol_info = Some(info)]
  /\ kout' = IF redis_error THEN Raised("set_external_symbol_info_cache")
             ELSE Returned("set_external_symbol_info_cache", FALSE, Absent)
  /\ UNCHANGED kpc
  /\ UNCHANGED notCalc

\* get_external_symbol_info_cache: 'await redis_client.get(key)' with no try.
GetExternalSymbolInfoCache(redis_error) ==
  /\ kpc = "serving"
  /\ kout' = IF redis_error THEN Raised("get_external_symbol_info_cache")
             ELSE Returned("get_external_symbol_info_cache", FALSE,
                           kin.external_symbol_info)
  /\ UNCHANGED <<kpc, kin>>
  /\ UNCHANGED notCalc

FaultNext ==
  \/ \E price_data \in Documents, redis_error \in BOOLEAN :
       SetLastKnownPrice(price_data, redis_error)
  \/ \E redis_error \in BOOLEAN : GetLastKnownPrice(redis_error)
  \/ \E redis_error \in BOOLEAN : GetOrderPlacementDataBatch(redis_error)
  \/ \E info \in Documents, redis_error \in BOOLEAN :
       SetExternalSymbolInfoCache(info, redis_error)
  \/ \E redis_error \in BOOLEAN : GetExternalSymbolInfoCache(redis_error)

SpecFault == FaultInit /\ [][FaultNext]_vars

\* C17: a call during which the Redis client raised did not raise to its
\* caller, and returned None, or for the batch read the dict without any
\* cached value.
C17_RedisErrorsContained ==
  kout.redis_error =>
    /\ ~kout.raised
    /\ IF kout.fn = "get_order_placement_data_batch"
       THEN kout.returned = Some(BatchResult(Absent))
       ELSE kout.returned = Absent

(***************************************************************************)
(*     ADMISSION, ONE ATTEMPT AFTER THE OTHER, WITH A FAILING STORE        *)
(* Sockets of one IP ask for admission one at a time, none is released and *)
(* no key expires.  A socket comes through the endpoint                    *)
(* (WebSocketRateLimiter.check_rate_limit, then broadcaster.connect) or    *)
(* through ConnectionManager.connect; each has its own counter key.  Each  *)
(* call of the counter store answers or raises (store_raises).             *)
(***************************************************************************)
Routes == {"endpoint", "manager"}

NoAttempt ==
  [route |-> "none", pc |-> "done", store_error |-> FALSE, prior |-> 0,
   accepted |-> FALSE, subscribed |-> FALSE, result |-> "none",
   over_limit |-> FALSE, code |-> 0]

\* The counter of the route's key.
CounterOf(route) == IF route = "endpoint" THEN rl_count ELSE cm_count

\* The attempt ends without the socket accepted: check_rate_limit returned
\* False and the endpoint closed the socket ("check_false"), or
\* ConnectionManager.connect raised WebSocketException ("raised").
EndRejected(result, store_raises) ==
  /\ attempt' = [attempt EXCEPT !.pc = "done", !.result = result,
                                !.store_error = @ \/ store_raises]
  /\ rejected' = [rejected EXCEPT ![attempt.route] = @ + 1]
  /\ clean' = (clean /\ ~store_raises)
  /\ UNCHANGED <<made, admitted>>

\* The close codes of starlette.status that connect uses.
WS_1008_POLICY_VIOLATION == 1008
WS_1011_INTERNAL_ERROR == 1011

\* The 'except Exception' of ConnectionManager.connect: whatever was raised
\* inside the try, a store error (0) or the WebSocketException of the limit
\* test, leaves the method as WebSocketException(1011).
ConnectExcept(raised_code) == WS_1011_INTERNAL_ERROR

\* ConnectionManager.connect ends by raising WebSocketException(code).
EndRaised(code, over_limit, store_raises) ==
  /\ attempt' = [attempt EXCEPT !.pc = "done", !.result = "raised",
                                !.store_error = @ \/ store_raises,
                                !.over_limit = over_limit, !.code = code]
  /\ rejected' = [rejected EXCEPT ![attempt.route] = @ + 1]
  /\ clean' = (clean /\ ~store_raises)
  /\ UNCHANGED <<made, admitted>>

GateInit ==
  /\ hpc = <<>>
  /\ rl_count = 0
  /\ releases = <<>>
  /\ cm_count = 0
  /\ attempt = NoAttempt
  /\ made = 0
  /\ admitted = [route \in Routes |-> 0]
  /\ rejected = [route \in Routes |-> 0]
  /\ clean = TRUE
  /\ cm_closed = 0
  /\ IdleOutsideGate

\* The next socket of the IP arrives, when the one before is done with.
GateArrive(route) ==
  /\ attempt.pc = "done"
  /\ made < NumAttempts
  /\ made' = made + 1
  /\ attempt' = [NoAttempt EXCEPT !.route = route,
                                  !.pc = IF route = "endpoint" THEN "get" ELSE "cm_incr",
                                  !.prior = admitted[route],
                                  !.result = "pending"]
  /\ UNCHANGED <<rl_count, cm_count, admitted, rejected, clean>>
  /\ UNCHANGED <<hpc, releases, cm_closed>>
  /\ UNCHANGED notGate

\* check_rate_limit: GET, int(), 'current_count >= self.max_connections';
\* an exception gives False.
CheckGet(store_raises) ==
  /\ attempt.pc = "get"
  /\ IF store_raises \/ rl_count >= max_connections
     THEN EndRejected("check_false", store_raises)
     ELSE /\ attempt' = [attempt EXCEPT !.pc = "incr"]
          /\ UNCHANGED <<made, admitted, rejected, clean>>
  /\ UNCHANGED <<rl_count, cm_count>>
  /\ UNCHANGED <<hpc, releases, cm_closed>>
  /\ UNCHANGED notGate

\* check_rate_limit with the exception of the pipeline passed over.
CheckIncr_fail_open(store_raises) ==
  /\ attempt.pc = "incr"
  /\ attempt' = [attempt EXCEPT !.pc = "connect",
                                !.store_error = @ \/ store_raises]
  /\ rl_count' = IF store_raises THEN rl_count ELSE rl_count + 1
  /\ clean' = (clean /\ ~store_raises)
  /\ UNCHANGED <<made, admitted, rejected>>
  /\ UNCHANGED cm_count
  /\ UNCHANGED <<hpc, releases, cm_closed>>
  /\ UNCHANGED notGate

\* check_rate_limit: the pipeline INCR + EXPIRE, then True; an exception
\* gives False.
CheckIncr(store_raises) ==
  /\ attempt.pc = "incr"
  /\ IF store_raises
     THEN EndRejected("check_false", store_raises) /\ UNCHANGED rl_count
     ELSE /\ rl_count' = rl_count + 1
          /\ attempt' = [attempt EXCEPT !.pc = "connect"]
          /\ UNCHANGED <<made, admitted, rejected, clean>>
  /\ UNCHANGED cm_count
  /\ UNCHANGED <<hpc, releases, cm_closed>>
  /\ UNCHANGED notGate

\* The endpoint after check_rate_limit returned True: broadcaster.connect
\* accepts the socket and adds it to active_connections.
BroadcasterConnect ==
  /\ attempt.pc = "connect"
  /\ attempt' = [attempt EXCEPT !.pc = "done", !.result = "admitted",
                                !.accepted = TRUE, !.subscribed = TRUE]
  /\ admitted' = [admitted EXCEPT !["endpoint"] = @ + 1]
  /\ UNCHANGED <<rl_count, cm_count, made, rejected, clean>>
  /\ UNCHANGED <<hpc, releases, cm_closed>>
  /\ UNCHANGED notGate

\* ConnectionManager.connect: the pipeline INCR + EXPIRE and the test
\* 'current_connections > self.max_connections'; an exception is raised
\* again as WebSocketException(1011).
ManagerIncr(store_raises) ==
  /\ attempt.pc = "cm_incr"
  /\ IF store_raises
     THEN EndRaised(ConnectExcept(0), FALSE, store_raises) /\ UNCHANGED cm_count
     ELSE /\ cm_count' = cm_count + 1
          /\ attempt' = [attempt EXCEPT !.pc = IF cm_count + 1 > max_connections
                                               THEN "cm_decr" ELSE "cm_accept"]
          /\ UNCHANGED <<made, admitted, rejected, clean>>
  /\ UNCHANGED rl_count
  /\ UNCHANGED <<hpc, releases, cm_closed>>
  /\ UNCHANGED notGate

\* ConnectionManager.connect over the limit without the DECR.
ManagerDecr_skipped(store_raises) ==
  /\ attempt.pc = "cm_decr"
  /\ EndRejected("raised", store_raises)
  /\ UNCHANGED cm_count
  /\ UNCHANGED rl_count
  /\ UNCHANGED <<hpc, releases, cm_closed>>
  /\ UNCHANGED notGate

\* ConnectionManager.connect over the limit: DECR, then
\* WebSocketException(1008), which 'except Exception' catches and raises
\* again as 1011.
ManagerDecr(store_raises) ==
  /\ attempt.pc = "cm_decr"
  /\ EndRaised(ConnectExcept(IF store_raises THEN 0 ELSE WS_1008_POLICY_VIOLATION),
               TRUE, store_raises)
  /\ cm_count' = IF store_raises THEN cm_count ELSE cm_count - 1
  /\ UNCHANGED rl_count
  /\ UNCHANGED <<hpc, releases, cm_closed>>
  /\ UNCHANGED notGate

\* ConnectionManager.connect within the limit: websocket.accept().
ManagerAccept ==
  /\ attempt.pc = "cm_accept"
  /\ attempt' = [attempt EXCEPT !.pc = "done", !.result = "admitted",
                                !.accepted = TRUE]
  /\ admitted' = [admitted EXCEPT !["manager"] = @ + 1]
  /\ UNCHANGED <<rl_count, cm_count, made, rejected, clean>>
  /\ UNCHANGED <<hpc, releases, cm_closed>>
  /\ UNCHANGED notGate

GateNext ==
  \/ \E route \in Routes : GateArrive(route)
  \/ \E store_raises \in BOOLEAN : CheckGet(store_raises)
  \/ \E store_raises \in BOOLEAN : CheckIncr(store_raises)
  \/ BroadcasterConnect
  \/ \E store_raises \in BOOLEAN : ManagerIncr(store_raises)
  \/ \E store_raises \in BOOLEAN : ManagerDecr(store_raises)
  \/ ManagerAccept

SpecGate == GateInit /\ [][GateNext]_vars

\* C18: an admission attempt during which the counter store raised has ended
\* with check_rate_limit returning False, or with ConnectionManager.connect
\* raising, and its socket is neither accepted nor in the subscriber set.
C18_StoreErrorNotAdmitted ==
  (attempt.store_error /\ attempt.pc = "done") =>
    /\ ~attempt.accepted
    /\ ~attempt.subscribed
    /\ attempt.result = IF attempt.route = "endpoint" THEN "check_false" ELSE "raised"

\* The store raised in the pipeline of check_rate_limit and in the DECR of
\* ConnectionManager.connect, and neither socket was accepted.
C18_Witness ==
  /\ attempt.pc = "done" /\ attempt.store_error
  /\ attempt.route = "manager" /\ attempt.result = "raised"
  /\ cm_count = max_connections + 1
  /\ rejected["endpoint"] >= 1 /\ admitted["endpoint"] = 0 /\ rl_count = 0

\* C19: an attempt that came after 5 admissions on its route, with the store
\* answering all along, has ended rejected, with the counter of the route
\* at 5.
C19_SixthRejectedCounterFive ==
  (attempt.pc = "done" /\ clean /\ attempt.prior = max_connections) =>
    /\ attempt.result # "admitted"
    /\ ~attempt.accepted
    /\ CounterOf(attempt.route) = max_connections

\* Both routes have admitted 5 and turned the 6th away.
C19_Witness ==
  /\ attempt.pc = "done" /\ clean
  /\ attempt.route = "manager" /\ attempt.prior = max_connections
  /\ attempt.result = "raised" /\ cm_count = max_connections
  /\ admitted["endpoint"] = max_connections /\ rejected["endpoint"] >= 1
  /\ rl_count = max_connections

(***************************************************************************)
(*        IDEMPOTENCY KEYS OF REQUESTS THAT DIFFER                         *)
(* The calls of the idempotency service again, the later calls carrying    *)
(* requests that differ from the first in payload, user_id or endpoint.    *)
(* The records keep the status "processing": no lookup reads the status.   *)
(***************************************************************************)
\* Another quantity.
PayloadB == << <<"symbol", "EURUSD">>, <<"order_quantity", "2.0">> >>

\* The payload that also carries the caller's user_id, as the order
\* payloads of test_backend_idempotency.py do.
PayloadAu == << <<"symbol", "EURUSD">>, <<"order_quantity", "1.0">>, <<"user_id", 1>> >>

KeyRequests ==
  { FirstRequest,
    [FirstRequest EXCEPT !.request_data = PayloadB],
    [FirstRequest EXCEPT !.request_data = PayloadAu],
    [FirstRequest EXCEPT !.user_id = 2],
    [FirstRequest EXCEPT !.user_id = 2, !.request_data = PayloadAu],
    [FirstRequest EXCEPT !.endpoint = "close_order"] }

\* A Python dict as the set of its items.
ItemsOf(d) == {d[i] : i \in 1..Len(d)}

\* request_data of the request as a dict.
PayloadDict(r) == ItemsOf(DictOf(r.request_data))

\* normalized_data of the request as a dict.
NormalizedDict(r) == ItemsOf(NormalizedData(r.request_data, r.user_id, r.endpoint))

KeysInit == IdemQuiet /\ IdleOutsideIdem

KeysNext ==
  \/ \E p \in Calls, r \in KeyRequests : IdemStart(p, r)
  \/ \E p \in Calls : IdemCleanup(p)
  \/ \E p \in Calls : IdemSelect(p)
  \/ \E p \in Calls : IdemCreate(p)
  \/ now < MaxKeyTime /\ Tick

SpecKeys == KeysInit /\ [][KeysNext]_vars

\* Call q was stopped (429 or a failed insert) by the record of call p.
StoppedBy(q, p) ==
  Done(q) /\ outcome[q] # "proceed" /\ ihist[q].blocker = p

\* C20 as stated: two requests that differ in payload, user_id or endpoint
\* have different keys, and neither is stopped by the record of the other.
C20_DifferentRequestsDistinctKeys ==
  LET started == {p \in Calls : ipc[p] # "idle"}
      key == [p \in started |-> KeyOf(ireq[p])]
      payload == [p \in started |-> PayloadDict(ireq[p])]
  IN  \A p \in started : \A q \in started \ {p} :
        (\/ payload[p] # payload[q]
         \/ ireq[p].user_id # ireq[q].user_id
         \/ ireq[p].endpoint # ireq[q].endpoint)
        => /\ key[p] # key[q]
           /\ ~StoppedBy(q, p)

\* C20, amended: two requests that differ in user_id, in endpoint, or in the
\* payload once the caller's user_id and endpoint are merged into it, have
\* different keys, and neither is stopped by the record of the other.
C20_DifferentNormalizedDistinctKeys ==
  LET started == {p \in Calls : ipc[p] # "idle"}
      key == [p \in started |-> KeyOf(ireq[p])]
      normalized == [p \in started |-> NormalizedDict(ireq[p])]
  IN  \A p \in started : \A q \in started \ {p} :
        (\/ normalized[p] # normalized[q]
         \/ ireq[p].user_id # ireq[q].user_id
         \/ ireq[p].endpoint # ireq[q].endpoint)
        => /\ key[p] # key[q]
           /\ ~StoppedBy(q, p)

\* C20 witness: with the record of the first request live, a request with
\* another quantity went through.
C20_Witness ==
  \E p \in Calls : \E q \in Calls \ {p} :
    /\ outcome[p] = "proceed" /\ outcome[q] = "proceed"
    /\ ireq[q].request_data = PayloadB /\ ireq[p] = FirstRequest
    /\ \A row \in table : row.expires_at > now
    /\ Cardinality(table) = 2

(***************************************************************************)
(* The legacy handle_idempotency, call by call: a client's token and       *)
(* request against the rows the backend handler has written.               *)
(***************************************************************************)
\* {"user_id": user_id, "user_type": user_type, **request_data}, dumped with
\* sort_keys=True and digested in full.
generate_request_hash(request_data, user_id, user_type) ==
  <<"sha256-hex",
    JsonDumpsSorted(DictOf(<< <<"user_id", user_id>>, <<"user_type", user_type>> >>
                           \o request_data))>>

RequestHashOf(r) == generate_request_hash(r.request_data, r.user_id, r.user_type)

\* existing_key.request_hash: create_idempotency_record builds the row from
\* idempotency_key, user_id, user_type, endpoint_name, status and expires_at;
\* its request_hash parameter is not passed on, so the column stays empty.
StoredRequestHash(row) == Absent

\* existing_key.response_data: update_idempotency_record stores the response
\* it is handed; the owner that marks its row completed hands one over.
StoredResponse(row) == IF row.status = "completed" THEN Some("response") ELSE Absent

\* The comparison left out: the row's hash is never looked at.
HashDiffers_unchecked(existing_key, request_hash) == FALSE

\* existing_key.request_hash != request_hash
HashDiffers(existing_key, request_hash) ==
  StoredRequestHash(existing_key) # Some(request_hash)

\* The requests a client may send with its token.
ReplayRequests == Requests \cup {[FirstRequest EXCEPT !.request_data = PayloadB]}

\* handle_idempotency (legacy), the whole call: the request's hash; SELECT by
\* idempotency_key alone (no expires_at condition); a row with another hash
\* raises HTTP 409; a completed row with a stored response is replayed;
\* otherwise create_idempotency_record(db, idempotency_key, user_id, endpoint,
\* request_hash, ttl_seconds=86400) is called, which binds endpoint to
\* user_type and request_hash to endpoint, leaves request_hash unbound and so
\* raises TypeError before the function body runs.
LegacyHandle(idempotency_key, r) ==
  /\ lcall.result = "none"
  /\ LET request_hash == RequestHashOf(r)
         rows == {row \in table : row.idempotency_key = idempotency_key}
         call(found, result) ==
           lcall' = [token |-> idempotency_key, request |-> r, found |-> found,
                     at |-> now, added |-> table' \ table, result |-> result]
     IN  /\ table' = table
         /\ IF rows = {}
            THEN call(Absent, "type_error")
            ELSE \E existing_key \in rows :
                   IF HashDiffers(existing_key, request_hash)
                   THEN call(Some(existing_key), "conflict_409")
                   ELSE IF /\ existing_key.status = "completed"
                           /\ StoredResponse(existing_key) # Absent
                        THEN call(Some(existing_key), "replayed")
                        ELSE call(Some(existing_key), "type_error")
  /\ UNCHANGED <<now, ipc, ireq, iexp, outcome, ihist, legacy>>
  /\ UNCHANGED notIdem

\* The rows at work here are young: the clock stops short of their expiry.
ReplayInit == IdemQuiet /\ IdleOutsideIdem

ReplayNext ==
  \/ \E p \in Calls : IdemStart(p, FirstRequest)
  \/ \E p \in Calls : IdemCleanup(p)
  \/ \E p \in Calls : IdemSelect(p)
  \/ \E p \in Calls : IdemCreate(p)
  \/ \E p \in Calls, status \in {"completed", "failed"} : IdemUpdate(p, status)
  \/ \E idempotency_key \in LegacyTokens, r \in ReplayRequests :
       LegacyHandle(idempotency_key, r)
  \/ now < MaxKeyTime /\ Tick

SpecReplay == ReplayInit /\ [][ReplayNext]_vars

\* The legacy call was made with a token that had a row.
LegacyFound == lcall.result # "none" /\ lcall.found # Absent

\* The request under which the row found was written.
FirstOperation == ireq[lcall.found[1].owner]

\* C21: a legacy call whose token has a row marked completed with a stored
\* response, made with the payload of the operation that wrote the row, gets
\* the stored response back.
C21_SamePayloadReplayed ==
  ( /\ LegacyFound
    /\ lcall.found[1].status = "completed"
    /\ RequestHashOf(lcall.request) = RequestHashOf(FirstOperation) )
  => lcall.result = "replayed"

\* The case of C21: the token's row is completed, the payload is the same.
C21_Case ==
  /\ LegacyFound
  /\ lcall.found[1].status = "completed"
  /\ RequestHashOf(lcall.request) = RequestHashOf(FirstOperation)

\* C22: a legacy call whose token has a row, made with a payload of another
\* request hash than the operation that wrote the row, raises HTTP 409 and
\* puts no row into the table.
C22_DifferentPayloadConflict ==
  ( /\ LegacyFound
    /\ RequestHashOf(lcall.request) # RequestHashOf(FirstOperation) )
  => /\ lcall.result = "conflict_409"
     /\ lcall.added = {}

C22_Witness ==
  /\ LegacyFound
  /\ RequestHashOf(lcall.request) # RequestHashOf(FirstOperation)
  /\ lcall.request.request_data = PayloadB
  /\ lcall.result = "conflict_409"

\* ttl_seconds of the legacy handler's create_idempotency_record call: 24 hours.
legacy_ttl_seconds == 86400

\* C29: a legacy call whose token has no row puts exactly one row into the
\* table, with that token, the caller's user_id, user_type and endpoint,
\* status processing and expires_at 24 hours after the call, and returns it
\* with no stored response.
C29_NoRecordCreatesOne ==
  (lcall.result # "none" /\ lcall.found = Absent)
  => /\ lcall.result = "created"
     /\ \E row \in lcall.added :
          /\ lcall.added = {row}
          /\ row.idempotency_key = lcall.token
          /\ row.user_id = lcall.request.user_id
          /\ row.user_type = lcall.request.user_type
          /\ row.endpoint_name = lcall.request.endpoint
          /\ row.status = "processing"
          /\ row.expires_at = lcall.at + legacy_ttl_seconds

\* Both lookups against rows old enough to expire: the backend handler's
\* calls, the clock up to MaxTime, and the legacy handler called with a
\* client's token.
ExpiryInit == IdemQuiet /\ IdleOutsideIdem

ExpiryNext ==
  \/ \E p \in Calls, r \in Requests : IdemStart(p, r)
  \/ \E p \in Calls : IdemCleanup(p)
  \/ \E p \in Calls : IdemSelect(p)
  \/ \E p \in Calls : IdemCreate(p)
  \/ \E idempotency_key \in LegacyTokens : LegacyHandle(idempotency_key, FirstRequest)
  \/ Tick

SpecExpiry == ExpiryInit /\ [][ExpiryNext]_vars

\* C28: no lookup acts on an expired row: the row that makes
\* check_duplicate_request reject a call had expires_at > now at the lookup,
\* and so had the row the legacy lookup returned, whether or not
\* cleanup_expired_keys had run in between.
C28_LookupsSkipExpired ==
  /\ \A p \in Calls :
       outcome[p] = "rejected_429" => ihist[p].blocker \in ihist[p].live
  /\ LegacyFound => lcall.found[1].expires_at > lcall.at

(***************************************************************************)
(* Signup OTP records: create_signup_otp, get_valid_signup_otp,            *)
(* verify_signup_otp, delete_signup_otp.                                   *)
(***************************************************************************)
\* settings.OTP_EXPIRATION_MINUTES, the number of rows issued, the clock.
OTP_EXPIRATION_MINUTES == 2
MaxOtps == 3
MaxOtpTime == 3

Emails == {"test@example.com"}
UserTypes == {"live", "demo"}
OtpCodes == {"123456", "654321"}

\* The lookup without its is_verified condition.
ValidSignupOtps_any_status(rows, email, user_type, otp_code, current_time) ==
  {row \in rows : /\ row.email = email
                  /\ row.user_type = user_type
                  /\ row.otp_code = otp_code
                  /\ row.expires_at > current_time}

\* The filter of get_valid_signup_otp: email, user_type and otp_code equal,
\* expires_at > current_time, is_verified == False.
ValidSignupOtps(rows, email, user_type, otp_code, current_time) ==
  {row \in rows : /\ row.email = email
                  /\ row.user_type = user_type
                  /\ row.otp_code = otp_code
                  /\ row.expires_at > current_time
                  /\ row.is_verified = FALSE}

\* create_signup_otp: the rows of this email and user_type are deleted, the
\* new row is added with is_verified False and committed.
CreateSignupOtp(email, user_type, force_otp_code) ==
  /\ next_id <= MaxOtps
  /\ signup_otps' =
       {row \in signup_otps : ~(row.email = email /\ row.user_type = user_type)}
       \cup {[id |-> next_id, email |-> email, user_type |-> user_type,
              otp_code |-> force_otp_code,
              expires_at |-> otp_now + OTP_EXPIRATION_MINUTES,
              is_verified |-> FALSE]}
  /\ next_id' = next_id + 1
  /\ UNCHANGED <<otp_now, spent, otp_ret>>
  /\ UNCHANGED notOtp

\* get_valid_signup_otp: result.scalars().first() of the filtered rows.
GetValidSignupOtp(email, user_type, otp_code) ==
  /\ LET valid == ValidSignupOtps(signup_otps, email, user_type, otp_code, otp_now)
         ret(row) == [email |-> email, user_type |-> user_type, otp_code |-> otp_code,
                      row |-> row, at |-> otp_now, spent |-> spent]
     IN  IF valid = {} THEN otp_ret' = ret(Absent)
         ELSE \E row \in valid : otp_ret' = ret(Some(row))
  /\ UNCHANGED <<signup_otps, otp_now, next_id, spent>>
  /\ UNCHANGED notOtp

\* verify_signup_otp(db, signup_otp) with the record the lookup returned:
\* is_verified = True, commit.  (A row deleted in the meantime cannot be
\* updated: the commit fails and the table stays as it is.)
VerifySignupOtp ==
  /\ otp_ret.row # Absent
  /\ LET signup_otp == otp_ret.row[1]
     IN  /\ \E row \in signup_otps : row.id = signup_otp.id
         /\ signup_otps' =
              {IF row.id = signup_otp.id THEN [row EXCEPT !.is_verified = TRUE] ELSE row :
                 row \in signup_otps}
         /\ spent' = spent \cup {signup_otp.id}
  /\ UNCHANGED <<otp_now, next_id, otp_ret>>
  /\ UNCHANGED notOtp

\* delete_signup_otp(db, signup_otp_id): DELETE by id, commit.
DeleteSignupOtp(signup_otp_id) ==
  /\ signup_otps' = {row \in signup_otps : row.id # signup_otp_id}
  /\ spent' = spent \cup {signup_otp_id}
  /\ UNCHANGED <<otp_now, next_id, otp_ret>>
  /\ UNCHANGED notOtp

\* A minute passes.
OtpTick ==
  /\ otp_now < MaxOtpTime
  /\ otp_now' = otp_now + 1
  /\ UNCHANGED <<signup_otps, next_id, spent, otp_ret>>
  /\ UNCHANGED notOtp

OtpInit == OtpQuiet /\ IdleOutsideOtp

OtpNext ==
  \/ \E email \in Emails, user_type \in UserTypes, force_otp_code \in OtpCodes :
       CreateSignupOtp(email, user_type, force_otp_code)
  \/ \E email \in Emails, user_type \in UserTypes, otp_code \in OtpCodes :
       GetValidSignupOtp(email, user_type, otp_code)
  \/ VerifySignupOtp
  \/ \E signup_otp_id \in 1..MaxOtps : next_id > signup_otp_id /\ DeleteSignupOtp(signup_otp_id)
  \/ OtpTick

SpecOtp == OtpInit /\ [][OtpNext]_vars

\* C23: the record get_valid_signup_otp returns matches the email, user_type
\* and otp_code asked for, had not expired at the call and was not verified;
\* a record that verify_signup_otp marked or delete_signup_otp removed before
\* the call is never returned.
C23_SignupOtpSingleUse ==
  otp_ret.row # Absent
  => LET row == otp_ret.row[1]
     IN  /\ row.email = otp_ret.email
         /\ row.user_type = otp_ret.user_type
         /\ row.otp_code = otp_ret.otp_code
         /\ row.expires_at > otp_ret.at
         /\ row.is_verified = FALSE
         /\ row.id \notin otp_ret.spent

\* C23 witness: the lookup came back empty although the table holds an
\* unexpired row of that email, user_type and code: the row had been verified.
C23_Witness ==
  /\ otp_ret.row = Absent
  /\ \E row \in signup_otps :
       /\ row.email = otp_ret.email
       /\ row.user_type = otp_ret.user_type
       /\ row.otp_code = otp_ret.otp_code
       /\ row.expires_at > otp_ret.at
       /\ row.is_verified
       /\ row.id \in otp_ret.spent

(***************************************************************************)
(* The subscriber set changed while a broadcast is under way.              *)
(***************************************************************************)
\* Task t's broadcast call ends in this step (by return, or by an exception
\* that _subscriber logs before it goes back to get_message).
BroadcastEnds(t) == bc[t] # NoBc /\ bc'[t] = NoBc /\ tpc'[t] = "wait"

\* The subscribers whose send_text has returned when the call ends.
Delivered(t) ==
  bc[t].got \cup (IF tpc[t] = "send" THEN {c \in {bc[t].cur} : alive[c]} ELSE {})

\* The subscribers that were in active_connections from the start of the
\* call to its end (a connection subscribes once) and whose client is there.
Throughout(t) == {c \in bc[t].start \cap active' : alive[c]}

\* C24: whatever connect and disconnect calls ran while broadcast was
\* suspended in a send, when the call ends every subscriber that was in
\* active_connections for the whole call has received the message.
C24_BroadcastSurvivesSetChange ==
  [][\A t \in Tasks : BroadcastEnds(t) => Throughout(t) \subseteq Delivered(t)]_vars

(***************************************************************************)
(* ConnectionManager over time: sockets accepted and closed, and the key   *)
(* ws_connections:<ip> running out 60 seconds after the last connect.      *)
(***************************************************************************)
\* The accepted sockets of the IP that have not been disconnected.
OpenConnections == admitted["manager"] - cm_closed

\* ConnectionManager.disconnect for an accepted socket: DECR, whatever the
\* key holds; an exception is logged.
ManagerDisconnect(store_raises) ==
  /\ cm_closed < admitted["manager"]
  /\ cm_closed' = cm_closed + 1
  /\ cm_count' = IF store_raises THEN cm_count ELSE cm_count - 1
  /\ UNCHANGED <<attempt, made, admitted, rejected, clean>>
  /\ UNCHANGED <<hpc, rl_count, releases>>
  /\ UNCHANGED notGate

\* The key's 60 seconds, set by the EXPIRE of the last connect, run out: the
\* key is gone and reads as 0.  (A positive value always carries a time to
\* live: only INCR raises the value, and EXPIRE is in the same pipeline.)
ManagerExpire ==
  /\ cm_count > 0
  /\ cm_count' = 0
  /\ UNCHANGED <<attempt, made, admitted, rejected, clean, cm_closed>>
  /\ UNCHANGED <<hpc, rl_count, releases>>
  /\ UNCHANGED notGate

ManagerInit == GateInit

ManagerNext ==
  \/ GateArrive("manager")
  \/ \E store_raises \in BOOLEAN : ManagerIncr(store_raises)
  \/ \E store_raises \in BOOLEAN : ManagerDecr(store_raises)
  \/ ManagerAccept
  \/ \E store_raises \in BOOLEAN : ManagerDisconnect(store_raises)
  \/ ManagerExpire

SpecManager == ManagerInit /\ [][ManagerNext]_vars

\* C25: the accepted and not yet disconnected sockets of one IP never number
\* more than max_connections, also when the key expires while sockets are
\* open and when disconnect runs after the expiry.
C25_OpenWithinLimit == OpenConnections <= max_connections

(***************************************************************************)
(* Staleness of the balance/margin entry and what the refresh does with a  *)
(* stale entry.                                                            *)
(***************************************************************************)
\* is_balance_margin_cache_stale: True without data, with margin == 0, with
\* a negative amount and with amounts that are not numeric.
is_balance_margin_cache_stale(entry) ==
  LET data == get_user_balance_margin_cache(entry)
  IN  IF data = Absent THEN TRUE
      ELSE IF ~data[1].numeric THEN TRUE
      ELSE IF data[1].margin = 0 THEN TRUE
      ELSE IF data[1].wallet_balance < 0 \/ data[1].margin < 0 THEN TRUE
      ELSE FALSE

\* The call returned at strategy 1: the cached entry as it was, nothing
\* loaded, nothing written.
ReturnedCachedEntry ==
  /\ fpc = "done"
  /\ fsets = 0
  /\ fret # Absent
  /\ ~fret[1].fallback

\* C26: a call of refresh_balance_margin_cache_with_fallback that found an
\* entry is_balance_margin_cache_stale reports as stale (margin exactly zero
\* included) does not return that entry as it is.
C26_StaleEntryNotReturned ==
  ReturnedCachedEntry => ~is_balance_margin_cache_stale(fcache)

(***************************************************************************)
(* The refresh as a call that ends: each step is an await of the caller's  *)
(* coroutine, which the event loop resumes when the awaited call is done.  *)
(***************************************************************************)
SpecFreshLive == FreshInit /\ [][FreshNext]_vars /\ WF_vars(FreshNext)

\* C30: a call of refresh_balance_margin_cache_with_fallback ends; no write
\* is made before the write step, one write has been made when the entry is
\* read back, and at most one more follows: never a third.
C30_EndsAfterAtMostTwoWrites ==
  /\ [](fsets <= 2)
  /\ [](fpc \in {"start", "start_no_db", "load_user", "margin", "write"} => fsets = 0)
  /\ [](fpc = "verify" => fsets = 1)
  /\ <>(fpc = "done")

\* C30 witness: the entry was not there when it was read back, the write was
\* made a second time and the call returned the row's amounts.
C30_Witness ==
  /\ fpc = "done"
  /\ fsets = 2
  /\ fret # Absent

(***************************************************************************)
(* get_user_data_cache: the entry under the user's key, the user's row,    *)
(* and what one call returns and leaves in the cache.                      *)
(***************************************************************************)
\* json.loads accepts the text: here, a JSON string document.
JsonValid(text) ==
  /\ Len(text) >= 2
  /\ text[1] = 34
  /\ text[Len(text)] = 34
  /\ \A i \in 2..(Len(text) - 1) : text[i] # 34 /\ text[i] >= 32

\* What may lie under the key: nothing, what set_user_data_cache stored for
\* a document, bytes that are not UTF-8, text that is not JSON.
StoredEntries ==
  {<< >>, <<255, 254>>, <<97, 98>>}
    \cup {compress_lz4(JsonText(n, ch)) : n \in CodecSizes, ch \in CodecChars}

\* json.dumps of user_data_to_cache for the user's row; << >>: no such user.
UserDocuments == {<< >>, JsonText(4, 120), JsonText(LZ4_COMPRESSION_THRESHOLD + 1, 120)}

\* No call made yet.
NoUserData == [entry |-> << >>, data |-> << >>, db_read |-> FALSE, db_raised |-> FALSE]

UserDataInit ==
  /\ cpc = "lookup"
  /\ cwire \in StoredEntries
  /\ ctext \in UserDocuments
  /\ cout = NoUserData
  /\ IdleOutsideCodec

\* get_user_data_cache, the whole call.  With bytes under the key:
\* decompress_lz4 and json.loads, whose exception the outer handler logs
\* before it returns None.  Without: the user is read from the database
\* (which may raise), stored with set_user_data_cache and returned.
UserDataGet(db_raises) ==
  /\ cpc = "lookup"
  /\ cpc' = "returned"
  /\ LET data_bytes == cwire
         ret(data, db_read) == [entry |-> data_bytes, data |-> data, db_read |-> db_read,
                                db_raised |-> db_read /\ db_raises]
     IN  IF data_bytes # << >>
         THEN LET data_json == decompress_lz4(data_bytes)
              IN  /\ cout' = ret(IF JsonValid(data_json) THEN Some(data_json) ELSE Absent, FALSE)
                  /\ UNCHANGED cwire
         ELSE IF db_raises \/ ctext = << >>
         THEN /\ cout' = ret(Absent, TRUE)
              /\ UNCHANGED cwire
         ELSE /\ cwire' = compress_lz4(ctext)
              /\ cout' = ret(Some(ctext), TRUE)
  /\ UNCHANGED ctext
  /\ UNCHANGED notCodec

UserDataNext == \E db_raises \in BOOLEAN : UserDataGet(db_raises)

SpecUserData == UserDataInit /\ [][UserDataNext]_vars

\* The bytes under the key do not decode to a JSON document.
Undecodable(data_bytes) ==
  data_bytes # << >> /\ ~JsonValid(decompress_lz4(data_bytes))

\* C27: a call of get_user_data_cache that finds an undecodable entry does
\* what it does on a miss: it reads the user from the database and, when the
\* user is there and the read did not raise, stores the user's data under
\* the key and returns it.
C27_UndecodableEntryIsMiss ==
  (cpc = "returned" /\ Undecodable(cout.entry))
  => /\ cout.db_read
     /\ (ctext # << >> /\ ~cout.db_raised)
          => /\ cout.data = Some(ctext)
             /\ cwire = compress_lz4(ctext)

(***************************************************************************)
(* The refresh after an exception in its body.                             *)
(***************************************************************************)
\* What the call returned is the row's own wallet_balance and margin,
\* tagged fallback.
ReturnedRowAsFallback ==
  /\ fret # Absent
  /\ fdb # Absent
  /\ fret[1] = [wallet_balance |-> fdb[1].wallet_balance, margin |-> fdb[1].margin,
                fallback |-> TRUE]

\* C31: when the load of the user, calculate_total_user_margin or the cache
\* write raised (the call stands at its exception handler), the call's next
\* step is its return, of the row's wallet_balance and margin tagged
\* fallback or of None; and nothing else is ever returned tagged fallback.
C31_ExceptionGivesFallback ==
  /\ [][fpc = "fallback" => /\ fpc' = "done"
                            /\ (fret' = Absent \/ ReturnedRowAsFallback')]_vars
  /\ []((fpc = "done" /\ fret # Absent /\ fret[1].fallback) => ReturnedRowAsFallback)

\* C31 witness: calculate_total_user_margin raised after the user was loaded
\* and the call returned the row's amounts tagged fallback.
C31_Witness ==
  /\ fpc = "done"
  /\ fuser # Absent
  /\ fsets = 0
  /\ ReturnedRowAsFallback

(***************************************************************************)
(* get_user_balance_margin_cache on the record it finds: the fields as     *)
(* JSON values, Decimal(str(value)) and the comparisons with 0.            *)
(***************************************************************************)
\* A JSON value of a field: its kind and, for a string or a number, its text.
JString(text) == [json |-> "string", text |-> text]
JNumber(text) == [json |-> "number", text |-> text]
JNull == [json |-> "null", text |-> << >>]
JTrue == [json |-> "true", text |-> << >>]

FieldValues ==
  { JString(<<"1", "0">>), JString(<<"0", ".", "0">>), JString(<<"-", "1">>),
    JString(<<"-", "0", ".", "1">>), JString(<<"-", "0">>), JString(<<"x">>),
    JString(<< >>), JString(<<"N", "a", "N">>), JString(<<"I", "n", "f">>),
    JString(<<"-", "I", "n", "f">>),
    JNumber(<<"1", "0">>), JNumber(<<"-", "1">>), JNull, JTrue }

\* str(value) of the Python value json.loads made of the field.
StrOf(v) ==
  IF v.json = "null" THEN <<"N", "o", "n", "e">>
  ELSE IF v.json = "true" THEN <<"T", "r", "u", "e">>
  ELSE v.text

\* The text without its sign.
Unsigned(text) ==
  IF text # << >> /\ Head(text) \in {"-", "+"} THEN Tail(text) ELSE text

\* decimal.Decimal(text): a finite number, an infinity, a NaN, or
\* InvalidOperation ("invalid"); minus: the sign is negative; zero: the
\* coefficient is 0.
DecimalOf(text) ==
  LET body == Unsigned(text)
      minus == text # << >> /\ Head(text) = "-"
  IN  IF body = <<"N", "a", "N">> THEN [kind |-> "nan", minus |-> minus, zero |-> FALSE]
      ELSE IF body = <<"I", "n", "f">> THEN [kind |-> "inf", minus |-> minus, zero |-> FALSE]
      ELSE IF IsDecimalLiteral(body)
      THEN [kind |-> "finite", minus |-> minus,
            zero |-> \A i \in DOMAIN body : body[i] \in {"0", "."}]
      ELSE [kind |-> "invalid", minus |-> FALSE, zero |-> FALSE]

\* 'd < 0' for a Decimal: "raises" (InvalidOperation) for a NaN.
BelowZero(d) ==
  IF d.kind = "nan" THEN "raises"
  ELSE IF d.minus /\ ~d.zero THEN "true"
  ELSE "false"

\* The validation with the wallet_balance comparison left out.
ValidatedRecord_margin_only(data) ==
  LET balance_decimal == DecimalOf(StrOf(data.wallet_balance))
      margin_decimal == DecimalOf(StrOf(data.margin))
  IN  IF balance_decimal.kind = "invalid" \/ margin_decimal.kind = "invalid" THEN Absent
      ELSE IF BelowZero(margin_decimal) = "raises" THEN Absent
      ELSE IF BelowZero(margin_decimal) = "true" THEN Absent
      ELSE Some(data)

\* The validation in get_user_balance_margin_cache: both Decimal
\* conversions, then margin < 0, then balance < 0; InvalidOperation (a
\* conversion that fails, a comparison with a NaN) gives None.
ValidatedRecord(data) ==
  LET balance_decimal == DecimalOf(StrOf(data.wallet_balance))
      margin_decimal == DecimalOf(StrOf(data.margin))
  IN  IF balance_decimal.kind = "invalid" \/ margin_decimal.kind = "invalid" THEN Absent
      ELSE IF BelowZero(margin_decimal) = "raises" THEN Absent
      ELSE IF BelowZero(margin_decimal) = "true" THEN Absent
      ELSE IF BelowZero(balance_decimal) = "raises" THEN Absent
      ELSE IF BelowZero(balance_decimal) = "true" THEN Absent
      ELSE Some(data)

\* The key holds nothing, or a record with both fields.
RecordInit ==
  /\ kpc = "stored"
  /\ kin \in {Absent} \cup {Some(d) : d \in [wallet_balance : FieldValues, margin : FieldValues]}
  /\ kout = Absent
  /\ IdleOutsideCalc

\* get_user_balance_margin_cache, the whole call.
RecordGet ==
  /\ kpc = "stored"
  /\ kpc' = "read"
  /\ kout' = IF kin = Absent THEN Absent ELSE ValidatedRecord(kin[1])
  /\ UNCHANGED kin
  /\ UNCHANGED notCalc

RecordNext == RecordGet

SpecRecord == RecordInit /\ [][RecordNext]_vars

\* The field's value is a number: a JSON number, or a string that spells
\* one (an infinity counts, a NaN does not).
Numeric(v) ==
  /\ v.json \in {"string", "number"}
  /\ DecimalOf(v.text).kind \in {"finite", "inf"}

\* The number is below zero.
Negative(v) == DecimalOf(v.text).minus /\ ~DecimalOf(v.text).zero

Acceptable(v) == Numeric(v) /\ ~Negative(v)

MaxMessages == 3

Subscribers == {"ws1", "ws2"}

OnlyB == [isdict |-> TRUE, items |-> {<<"b", "1.25">>}]
BothSides == [isdict |-> TRUE, items |-> {<<"b", "1.25">>, <<"o", "1.30">>}]
NoObject == [isdict |-> FALSE, items |-> {<<"b", "1.25">>}]

ChannelBatches ==
  { [symbol \in {US30} |-> OnlyB],
    [symbol \in {FOO123} |-> BothSides],
    [symbol \in {US30} |-> NoObject],
    [symbol \in {US30, us30} |-> IF symbol = US30 THEN NoObject ELSE OnlyB] }

\* message['data'], by what json.loads makes of it.
ChannelData ==
  {[json |-> j, market_data |-> << >>, timestamp |-> Absent] :
     j \in {"invalid", "array", "null"}}
  \cup {[json |-> "object", market_data |-> b, timestamp |-> Some("t1")] :
          b \in ChannelBatches}

ChannelInit ==
  /\ kpc = "get_message"
  /\ kin \in [channel : UNION {[1..n -> ChannelData] : n \in 1..MaxMessages},
              message : {Absent}]
  /\ kout = [log |-> << >>,
             inbox |-> [ws \in Subscribers |-> << >>],
             cancelled |-> FALSE]
  /\ IdleOutsideCalc

\* pubsub.get_message returns the next message of the channel.
SubGetMessage ==
  /\ kpc = "get_message"
  /\ kin.channel # << >>
  /\ kin' = [channel |-> Tail(kin.channel), message |-> Some(Head(kin.channel))]
  /\ kpc' = "process"
  /\ UNCHANGED kout
  /\ UNCHANGED notCalc

\* pubsub.get_message raises: the outer handler logs and sleeps.
SubGetRaises ==
  /\ kpc = "get_message"
  /\ kpc' = "sleep"
  /\ UNCHANGED <<kin, kout>>
  /\ UNCHANGED notCalc

\* asyncio.sleep(5) is over: the loop goes on.
SubWake ==
  /\ kpc = "sleep"
  /\ kpc' = "get_message"
  /\ UNCHANGED <<kin, kout>>
  /\ UNCHANGED notCalc

\* The task is cancelled while it waits: CancelledError ends the loop.
SubCancel ==
  /\ kpc \in {"get_message", "sleep"}
  /\ kpc' = "ended"
  /\ kout' = [kout EXCEPT !.cancelled = TRUE]
  /\ UNCHANGED kin
  /\ UNCHANGED notCalc

\* What the body of the inner try does with message['data']: "decode" for
\* json.JSONDecodeError, "error" for any other exception, "done" otherwise.
Processed(data) ==
  IF data.json = "invalid" THEN [ends |-> "decode", sent |-> Absent]
  ELSE IF data.json # "object" THEN [ends |-> "error", sent |-> Absent]
  ELSE [ends |-> "done", sent |-> UpdateMessage(data.market_data, data.timestamp)]

\* The processing whose exceptions leave the loop.
SubProcess_unguarded ==
  /\ kpc = "process"
  /\ LET data == kin.message[1]
         p == Processed(data)
         at == Len(kout.log) + 1
     IN /\ kout' = [kout EXCEPT
                      !.log = Append(@, [data |-> data, sent |-> p.sent]),
                      !.inbox = [ws \in Subscribers |->
                                   IF p.sent = Absent THEN @[ws]
                                   ELSE Append(@[ws], [at |-> at, message |-> p.sent[1]])]]
        /\ kpc' = IF p.ends = "done" THEN "get_message" ELSE "ended"
  /\ kin' = [kin EXCEPT !.message = Absent]
  /\ UNCHANGED notCalc

\* One message is processed: decoded, filtered, reshaped and broadcast; an
\* exception is logged by one of the two inner handlers.
SubProcess ==
  /\ kpc = "process"
  /\ LET data == kin.message[1]
         p == Processed(data)
         at == Len(kout.log) + 1
     IN kout' = [kout EXCEPT
                   !.log = Append(@, [data |-> data, sent |-> p.sent]),
                   !.inbox = [ws \in Subscribers |->
                                IF p.sent = Absent THEN @[ws]
                                ELSE Append(@[ws], [at |-> at, message |-> p.sent[1]])]]
  /\ kpc' = "get_message"
  /\ kin' = [kin EXCEPT !.message = Absent]
  /\ UNCHANGED notCalc

ChannelNext ==
  \/ SubGetMessage
  \/ SubGetRaises
  \/ SubWake
  \/ SubCancel
  \/ SubProcess

SpecChannel == ChannelInit /\ [][ChannelNext]_vars

\* Invalid JSON, a payload that is no object, or an entry that is no object.
Malformed(data) ==
  \/ data.json # "object"
  \/ \E symbol \in DOMAIN data.market_data : ~data.market_data[symbol].isdict

\* A batch of objects of which one is whitelisted and carries b or o.
WellFormedWhitelisted(data) ==
  /\ ~Malformed(data)
  /\ \E symbol \in DOMAIN data.market_data :
       /\ Upper(symbol) \in symbols_to_broadcast
       /\ \E item \in data.market_data[symbol].items : item[1] \in {"b", "o"}

\* Subscriber ws received an update for the message processed as number i.
ReceivedFor(ws, i) ==
  \E n \in DOMAIN kout.inbox[ws] :
    /\ kout.inbox[ws][n].at = i
    /\ kout.inbox[ws][n].message.type = "update"
    /\ DOMAIN kout.inbox[ws][n].message.data # {}

\* C34: the fan-in task ends only when it is cancelled, never because of a
\* message; and a well-formed whitelisted tick processed right after a
\* malformed message is received by every subscriber.
C34_MalformedMessageSurvived ==
  /\ kpc = "ended" => kout.cancelled
  /\ \A i \in DOMAIN kout.log :
       (i > 1 /\ Malformed(kout.log[i - 1].data)
              /\ WellFormedWhitelisted(kout.log[i].data))
         => \A ws \in Subscribers : ReceivedFor(ws, i)

\* Invalid JSON, a payload that is no object and then a well-formed tick
\* were processed, and the tick reached both subscribers.
C34_Witness ==
  /\ Len(kout.log) = 3
  /\ kout.log[1].data.json = "invalid"
  /\ kout.log[2].data.json = "array"
  /\ WellFormedWhitelisted(kout.log[3].data)
  /\ \A ws \in Subscribers : ReceivedFor(ws, 3)
  /\ kpc = "get_message"

(***************************************************************************)
(*        THE KEY OF THE PER-IP COUNTER (rate_limiter.py, both classes)    *)
(* A connection has the text of its X-Forwarded-For header, if it has the  *)
(* header, and the host of its socket peer.  A text is the sequence of its *)
(* characters.                                                             *)
(* kin is the connection, kout the command sent to the store and its key.  *)
(***************************************************************************)
MaxHeader == 3

HeaderChars == {"1", "2", ",", " "}
PeerHosts == {<<"1">>, <<"2">>}

HeaderTexts == UNION {[1..n -> HeaderChars] : n \in 0..MaxHeader}

\* text.split(',')[0]
SplitFirst(text) ==
  IF \E i \in DOMAIN text : text[i] = ","
  THEN SubSeq(text, 1, (CHOOSE i \in DOMAIN text :
                          text[i] = "," /\ \A j \in 1..(i - 1) : text[j] # ",") - 1)
  ELSE text

\* text.strip()
Strip(text) ==
  IF \A i \in DOMAIN text : text[i] = " " THEN << >>
  ELSE LET first == CHOOSE i \in DOMAIN text :
                      text[i] # " " /\ \A j \in 1..(i - 1) : text[j] = " "
           last == CHOOSE i \in DOMAIN text :
                     text[i] # " " /\ \A j \in (i + 1)..Len(text) : text[j] = " "
       IN SubSeq(text, first, last)

\* ConnectionManager._get_client_ip
get_client_ip(websocket) ==
  IF websocket.forwarded_for # Absent /\ websocket.forwarded_for[1] # << >>
  THEN Strip(SplitFirst(websocket.forwarded_for[1]))
  ELSE websocket.host

NoCommand == [by |-> "none", command |-> "none", key |-> << >>]

KeyInit ==
  /\ kpc = "connection"
  /\ kin \in [forwarded_for : {Absent} \cup {Some(t) : t \in HeaderTexts},
              host : PeerHosts]
  /\ kout = NoCommand
  /\ IdleOutsideCalc

\* ConnectionManager.connect up to its first command: no command when no
\* address was found, INCR of ws_conn:raw:<ip> otherwise.
ManagerConnectKey ==
  /\ kpc = "connection"
  /\ kpc' = "sent"
  /\ LET client_ip == get_client_ip(kin)
     IN kout' = IF client_ip = << >>
                THEN [by |-> "ConnectionManager.connect", command |-> "none", key |-> << >>]
                ELSE [by |-> "ConnectionManager.connect", command |-> "INCR",
                      key |-> <<"ws_conn:raw", client_ip>>]
  /\ UNCHANGED kin
  /\ UNCHANGED notCalc

\* ConnectionManager.disconnect: DECR of ws_conn:raw:<ip>, nothing when no
\* address was found.
ManagerDisconnectKey ==
  /\ kpc = "connection"
  /\ kpc' = "sent"
  /\ LET client_ip == get_client_ip(kin)
     IN kout' = IF client_ip = << >>
                THEN [by |-> "ConnectionManager.disconnect", command |-> "none", key |-> << >>]
                ELSE [by |-> "ConnectionManager.disconnect", command |-> "DECR",
                      key |-> <<"ws_conn:raw", client_ip>>]
  /\ UNCHANGED kin
  /\ UNCHANGED notCalc

\* WebSocketRateLimiter.check_rate_limit up to its first command: GET of
\* ws_rate_limit:<websocket.client.host>.
CheckRateLimitKey ==
  /\ kpc = "connection"
  /\ kpc' = "sent"
  /\ kout' = [by |-> "WebSocketRateLimiter.check_rate_limit", command |-> "GET",
              key |-> <<"ws_rate_limit", kin.host>>]
  /\ UNCHANGED kin
  /\ UNCHANGED notCalc

\* WebSocketRateLimiter.release_connection up to its first command.
ReleaseConnectionKey ==
  /\ kpc = "connection"
  /\ kpc' = "sent"
  /\ kout' = [by |-> "WebSocketRateLimiter.release_connection", command |-> "GET",
              key |-> <<"ws_rate_limit", kin.host>>]
  /\ UNCHANGED kin
  /\ UNCHANGED notCalc

KeyNext ==
  \/ ManagerConnectKey
  \/ ManagerDisconnectKey
  \/ CheckRateLimitKey
  \/ ReleaseConnectionKey

SpecKey == KeyInit /\ [][KeyNext]_vars

\* The first entry of the header.
FirstEntry(text) == Strip(SplitFirst(text))

\* The header is there and names a first address.
HeaderGivesAddress ==
  kin.forwarded_for # Absent /\ FirstEntry(kin.forwarded_for[1]) # << >>

\* C35 as stated: every command of either class addresses the counter of
\* the first X-Forwarded-For entry when the header names one, and the
\* counter of the socket peer when there is no header.
C35_KeyFromForwardedFor ==
  (kpc = "sent" /\ kout.command # "none") =>
    /\ HeaderGivesAddress => kout.key[2] = FirstEntry(kin.forwarded_for[1])
    /\ kin.forwarded_for = Absent => kout.key[2] = kin.host

\* The part of C35 about ConnectionManager alone.
ManagerKeyFromForwardedFor ==
  (kpc = "sent" /\ kout.command \in {"INCR", "DECR"}) =>
    /\ HeaderGivesAddress => kout.key[2] = FirstEntry(kin.forwarded_for[1])
    /\ kin.forwarded_for = Absent => kout.key[2] = kin.host

(***************************************************************************)
(*        THE CLOSE CODE OF A REJECTION BY ConnectionManager.connect       *)
(***************************************************************************)
\* ConnectionManager.connect has turned a socket away.
ManagerRejected ==
  attempt.pc = "done" /\ attempt.route = "manager" /\ attempt.result = "raised"

\* C36: a socket that ConnectionManager.connect turned away because the IP
\* was over the limit, with the store answering, was turned away with close
\* code 1008; close code 1011 is used only when the store raised.
C36_OverLimitCode1008 ==
  ManagerRejected =>
    /\ (attempt.over_limit /\ ~attempt.store_error)
         => attempt.code = WS_1008_POLICY_VIOLATION
    /\ attempt.code = WS_1011_INTERNAL_ERROR => attempt.store_error

(***************************************************************************)
(*   THE COUNTER AND THE OPEN CONNECTIONS (public_market_data_websocket)   *)
(* The handlers of the connections of one IP from check_rate_limit to      *)
(* release_connection, with the handshake able to fail and no expiry of    *)
(* the key.                                                                *)
(***************************************************************************)
\* broadcaster.connect raises in websocket.accept(): the outer handler of
\* the endpoint logs, closes the socket with 1011 and returns; the finally
\* block with release_connection belongs to the inner try and is not run.
HAcceptFails(c) ==
  /\ hpc[c] = "admitted"
  /\ hpc' = [hpc EXCEPT ![c] = "closed"]
  /\ UNCHANGED <<rl_count, releases>>
  /\ UNCHANGED notRate

LeakInit == RateInit

LeakNext ==
  \/ \E c \in Conns : RlGet(c)
  \/ \E c \in Conns : RlIncr(c)
  \/ \E c \in Conns : HAcceptFails(c)
  \/ \E c \in Conns : ServeAndLeave(c)
  \/ \E c \in Conns : RelGet(c)
  \/ \E c \in Conns : RelDecr(c)

SpecLeak == LeakInit /\ [][LeakNext]_vars

\* No handler of the IP is between two commands of check_rate_limit or of
\* release_connection.
CounterAtRest == \A c \in Conns : hpc[c] \notin {"rl_incr", "rel_get", "rel_decr"}

\* C37: without any expiry of the key, whenever no admission or release is
\* under way the counter of the IP equals the number of its admitted
\* connections that are still open; it is 0 when all of them have ended.
C37_CounterMatchesOpen ==
  CounterAtRest => rl_count = Cardinality(AdmittedOpen)

(***************************************************************************)
(*        THE KEY OF AN ADJUSTED MARKET PRICE (cache.py)                   *)
(* One key of the store, written by set_adjusted_market_price_cache with a *)
(* TTL, and the four functions that read adjusted prices.  kin is the      *)
(* entry of the store and its age in seconds, kout the last read.          *)
(***************************************************************************)
ADJUSTED_MARKET_PRICE_CACHE_EXPIRY_SECONDS == 30

\* str.lower on one character.
LowerChar(ch) ==
  CASE ch = "U" -> "u"
    [] ch = "S" -> "s"
    [] OTHER -> ch

\* str.lower.
Lower(text) == [i \in DOMAIN text |-> LowerChar(text[i])]

GroupNames == {<<"u", "s">>, <<"U", "s">>, <<"U", "S">>}
PriceSymbols == {US30, us30}

\* cache_key of set_adjusted_market_price_cache
SetAdjustedKey(group_name, symbol) ==
  <<"adjusted_market_price:", Lower(group_name), Upper(symbol)>>

\* cache_key of get_adjusted_market_price_cache
GetAdjustedKey(user_group_name, symbol) ==
  <<"adjusted_market_price:", Lower(Strip(user_group_name)), Upper(Strip(symbol))>>

\* adjusted_price_key of get_order_placement_data_batch
OrderPlacementAdjustedKey(group_name, symbol) ==
  <<"adjusted_market_price:", group_name, symbol>>

\* adjusted_price_keys of get_market_data_batch, for one symbol
MarketDataAdjustedKey(group_name, symbol) ==
  <<"adjusted_market_price:", group_name, symbol>>

\* cache_key of get_price_for_order_type
OrderTypeAdjustedKey(group_name, symbol) ==
  <<"adjusted_market_price:", group_name, Upper(symbol)>>

Readers ==
  {"get_adjusted_market_price_cache", "get_order_placement_data_batch",
   "get_market_data_batch", "get_price_for_order_type"}

\* The key a reader addresses.
ReadKey(reader, group_name, symbol) ==
  CASE reader = "get_adjusted_market_price_cache" -> GetAdjustedKey(group_name, symbol)
    [] reader = "get_order_placement_data_batch" -> OrderPlacementAdjustedKey(group_name, symbol)
    [] reader = "get_market_data_batch" -> MarketDataAdjustedKey(group_name, symbol)
    [] reader = "get_price_for_order_type" -> OrderTypeAdjustedKey(group_name, symbol)

NoEntry == [key |-> << >>, group_name |-> << >>, symbol |-> << >>, age |-> 0]
NoRead == [reader |-> "none", group_name |-> << >>, symbol |-> << >>, found |-> FALSE]

\* GET or MGET of one key: the entry, while its TTL has not run out.
Stored(key) ==
  kin # NoEntry /\ kin.key = key /\ kin.age < ADJUSTED_MARKET_PRICE_CACHE_EXPIRY_SECONDS

PriceInit ==
  /\ kpc = "store"
  /\ kin = NoEntry
  /\ kout = NoRead
  /\ IdleOutsideCalc

\* set_adjusted_market_price_cache: SET with ex = 30.
SetAdjustedMarketPrice(group_name, symbol) ==
  /\ kpc = "store"
  /\ kin' = [key |-> SetAdjustedKey(group_name, symbol),
             group_name |-> group_name, symbol |-> symbol, age |-> 0]
  /\ kout' = NoRead
  /\ UNCHANGED kpc
  /\ UNCHANGED notCalc

\* A second passes.
PriceTick ==
  /\ kin # NoEntry
  /\ kin.age < ADJUSTED_MARKET_PRICE_CACHE_EXPIRY_SECONDS
  /\ kin' = [kin EXCEPT !.age = @ + 1]
  /\ kout' = NoRead
  /\ UNCHANGED kpc
  /\ UNCHANGED notCalc

\* One of the four readers looks for the adjusted price of a group and a
\* symbol.
ReadAdjustedPrice(reader, group_name, symbol) ==
  /\ kpc = "store"
  /\ kout' = [reader |-> reader, group_name |-> group_name, symbol |-> symbol,
              found |-> Stored(ReadKey(reader, group_name, symbol))]
  /\ UNCHANGED <<kpc, kin>>
  /\ UNCHANGED notCalc

PriceNext ==
  \/ \E group_name \in GroupNames, symbol \in PriceSymbols :
       SetAdjustedMarketPrice(group_name, symbol)
  \/ PriceTick
  \/ \E reader \in Readers, group_name \in GroupNames, symbol \in PriceSymbols :
       ReadAdjustedPrice(reader, group_name, symbol)

SpecPrice == PriceInit /\ [][PriceNext]_vars

\* The last read asked for the group and the symbol of the entry, in some
\* letter case, before the entry's TTL ran out.
ReadOfLiveEntry ==
  /\ kout # NoRead
  /\ kin # NoEntry
  /\ kin.age < ADJUSTED_MARKET_PRICE_CACHE_EXPIRY_SECONDS
  /\ Lower(kout.group_name) = Lower(kin.group_name)
  /\ Upper(kout.symbol) = Upper(kin.symbol)

\* C38: every read of the group and symbol of an adjusted price that was
\* written and has not expired, by any of the four readers and in any
\* letter case, finds the price.
C38_WrittenPriceFound == ReadOfLiveEntry => kout.found

\* The part of C38 about get_adjusted_market_price_cache alone.
GetAdjustedFindsWritten ==
  (ReadOfLiveEntry /\ kout.reader = "get_adjusted_market_price_cache") => kout.found

(***************************************************************************)
(*        BackgroundCleanupService: start, stop and the cleanup loop       *)
(* Everything runs on one event loop: a step is the code between two       *)
(* suspension points.  kin is the service: is_running, _task (0 for None)  *)
(* and the loop tasks in the order they were created; kout holds the       *)
(* callers of start_cleanup_task and stop_cleanup_task.  A loop task       *)
(* stands at                                                               *)
(*   "none"             not created                                        *)
(*   "init"             created, not yet run                               *)
(*   "sweep"            await IdempotencyService.cleanup_expired_keys(db)  *)
(*   "close"            finally: await db.close()                          *)
(*   "close_cancelled"  the same, with CancelledError on its way out       *)
(*   "sleep"            await asyncio.sleep                                *)
(*   "done"             returned or cancelled                              *)
(***************************************************************************)
MaxLoopTasks == 3
NumCallers == 2

LoopTasks == 1..MaxLoopTasks
Callers == 1..NumCallers

NoLoopTask == [pc |-> "none", cancelled |-> FALSE]
NoCall39 == [pc |-> "idle", awaited |-> 0, last |-> "none"]

\* BackgroundCleanupService.__init__
CleanupInit ==
  /\ kpc = "service"
  /\ kin = [is_running |-> FALSE, task |-> 0, tasks |-> [t \in LoopTasks |-> NoLoopTask]]
  /\ kout = [k \in Callers |-> NoCall39]
  /\ IdleOutsideCalc

Created == Cardinality({t \in LoopTasks : kin.tasks[t].pc # "none"})

\* start_cleanup_task: returns when is_running, else sets it and creates
\* the task.
StartCleanupTask(k) ==
  /\ kout[k].pc = "idle"
  /\ IF kin.is_running
     THEN /\ kout' = [kout EXCEPT ![k] = [NoCall39 EXCEPT !.last = "start_noop"]]
          /\ UNCHANGED kin
     ELSE /\ Created < MaxLoopTasks
          /\ kin' = [kin EXCEPT !.is_running = TRUE,
                                !.task = Created + 1,
                                !.tasks[Created + 1] = [pc |-> "init", cancelled |-> FALSE]]
          /\ kout' = [kout EXCEPT ![k] = [NoCall39 EXCEPT !.last = "started"]]
  /\ UNCHANGED kpc
  /\ UNCHANGED notCalc

\* Task.cancel(): nothing for a task that is done.
Cancel(tasks, t) ==
  IF tasks[t].pc = "done" THEN tasks ELSE [tasks EXCEPT ![t].cancelled = TRUE]

\* stop_cleanup_task that leaves the task to see the flag by itself.
StopCleanupTask_no_cancel(k) ==
  /\ kout[k].pc = "idle"
  /\ IF ~kin.is_running
     THEN /\ kout' = [kout EXCEPT ![k] = [NoCall39 EXCEPT !.last = "stop_noop"]]
          /\ UNCHANGED kin
     ELSE /\ kin' = [kin EXCEPT !.is_running = FALSE]
          /\ kout' = [kout EXCEPT ![k] =
                        IF kin.task = 0 THEN [NoCall39 EXCEPT !.last = "stopped"]
                        ELSE [pc |-> "stop_wait", awaited |-> kin.task, last |-> "none"]]
  /\ UNCHANGED kpc
  /\ UNCHANGED notCalc

\* stop_cleanup_task up to 'await self._task': returns when not is_running,
\* else clears the flag and cancels the task.
StopCleanupTask(k) ==
  /\ kout[k].pc = "idle"
  /\ IF ~kin.is_running
     THEN /\ kout' = [kout EXCEPT ![k] = [NoCall39 EXCEPT !.last = "stop_noop"]]
          /\ UNCHANGED kin
     ELSE /\ kin' = [kin EXCEPT !.is_running = FALSE,
                                !.tasks = IF kin.task = 0 THEN @ ELSE Cancel(@, kin.task)]
          /\ kout' = [kout EXCEPT ![k] =
                        IF kin.task = 0 THEN [NoCall39 EXCEPT !.last = "stopped"]
                        ELSE [pc |-> "stop_wait", awaited |-> kin.task, last |-> "none"]]
  /\ UNCHANGED kpc
  /\ UNCHANGED notCalc

\* The awaited task is done: 'await self._task' returns or raises
\* CancelledError, and stop_cleanup_task returns.
StopReturn(k) ==
  /\ kout[k].pc = "stop_wait"
  /\ kin.tasks[kout[k].awaited].pc = "done"
  /\ kout' = [kout EXCEPT ![k] = [pc |-> "idle", awaited |-> @.awaited, last |-> "stopped"]]
  /\ UNCHANGED <<kpc, kin>>
  /\ UNCHANGED notCalc

\* The top of the loop for a task that was not cancelled: out of it when
\* is_running is false; else get_db gives a session and the sweep begins,
\* or get_db raises and the task sleeps for a minute.
LoopTop(t, db_ok) ==
  IF ~kin.is_running THEN "done"
  ELSE IF db_ok THEN "sweep" ELSE "sleep"

\* The first run of a created task; a task cancelled before never runs.
LoopStart(t, db_ok) ==
  /\ kin.tasks[t].pc = "init"
  /\ kin' = [kin EXCEPT !.tasks[t].pc =
               IF kin.tasks[t].cancelled THEN "done" ELSE LoopTop(t, db_ok)]
  /\ UNCHANGED <<kpc, kout>>
  /\ UNCHANGED notCalc

\* cleanup_expired_keys returns or raises (logged), or CancelledError
\* arrives there: the finally block closes the session.
LoopSweepEnds(t) ==
  /\ kin.tasks[t].pc = "sweep"
  /\ kin' = [kin EXCEPT !.tasks[t].pc =
               IF kin.tasks[t].cancelled THEN "close_cancelled" ELSE "close"]
  /\ UNCHANGED <<kpc, kout>>
  /\ UNCHANGED notCalc

\* db.close() returns: on to asyncio.sleep, or out of the loop with the
\* CancelledError ('except asyncio.CancelledError: break').
LoopClosed(t) ==
  /\ kin.tasks[t].pc \in {"close", "close_cancelled"}
  /\ kin' = [kin EXCEPT !.tasks[t].pc =
               IF kin.tasks[t].cancelled THEN "done" ELSE "sleep"]
  /\ UNCHANGED <<kpc, kout>>
  /\ UNCHANGED notCalc

\* asyncio.sleep returns, or raises CancelledError.
LoopWake(t, db_ok) ==
  /\ kin.tasks[t].pc = "sleep"
  /\ kin' = [kin EXCEPT !.tasks[t].pc =
               IF kin.tasks[t].cancelled THEN "done" ELSE LoopTop(t, db_ok)]
  /\ UNCHANGED <<kpc, kout>>
  /\ UNCHANGED notCalc

CleanupNext ==
  \/ \E k \in Callers : StartCleanupTask(k)
  \/ \E k \in Callers : StopCleanupTask(k)
  \/ \E k \in Callers : StopReturn(k)
  \/ \E t \in LoopTasks, db_ok \in BOOLEAN : LoopStart(t, db_ok)
  \/ \E t \in LoopTasks : LoopSweepEnds(t)
  \/ \E t \in LoopTasks : LoopClosed(t)
  \/ \E t \in LoopTasks, db_ok \in BOOLEAN : LoopWake(t, db_ok)

SpecCleanup == CleanupInit /\ [][CleanupNext]_vars

\* The loop tasks that go on sweeping: created, not done, not cancelled.
ActiveLoopTasks ==
  {t \in LoopTasks : kin.tasks[t].pc \notin {"none", "done"} /\ ~kin.tasks[t].cancelled}

\* Task t begins a sweep in this step.
SweepBegins(t) == kin.tasks[t].pc # "sweep" /\ kin'.tasks[t].pc = "sweep"

====
